---- MODULE Spec2Model ----
(***************************************************************************)
(* Model of the orchestration layer of the Hidemyacc / TikTok Seller       *)
(* profile manager (src/src/main.ts):                                      *)
(*   - the batch-fetch-tiktok IPC handler: chunk loop, processProfile      *)
(*     (start / 409 status fallback / 400 skip, retry) and the parts of    *)
(*     fetchTikTokDataFast that decide a job's outcome;                    *)
(*   - the window slot allocator getNextWindowPosition /                   *)
(*     releaseWindowPosition as used by the login-tiktok handler;          *)
(*   - the login-tiktok handler from its credential lookup to its return;  *)
(*   - one call of loginTikTokSeller (tiktok-login.ts);                    *)
(*   - the credential store of credentials-reader.ts;                      *)
(*   - one call of fetchTikTokDataFast, step by step: the three detection  *)
(*     strategies, the release of the browser and the direct requests.     *)
(*   - the 'fetch-progress' messages the batch handler sends to the main   *)
(*     window, which may have been closed.                                 *)
(* Every await of the code is a position (pc) of the job; the answers of   *)
(* the control plane, the browser and the target site are chosen by the    *)
(* environment.                                                            *)
(***************************************************************************)
EXTENDS Integers, Sequences, FiniteSets, TLC

\* ------------------------------------------------------------------ bounds
\* Largest number of profile IDs handed to batch-fetch-tiktok.
MaxProfiles == 4
\* Largest number of failing answers the environment gives in one batch, or in one
\* call of fetchTikTokDataFast.
MaxFaults == 2
\* Number of login-tiktok invocations that may be in flight at once.
MaxInvocations == 6
\* Number of login-tiktok invocations followed from call to return.
MaxLogins == 2
\* Largest number of rows in a sheet handed to a load.
MaxRows == 2

\* ------------------------------------------------------- program constants
CHUNK_SIZE == 3
MAX_RETRIES == 1
MAX_WINDOWS == 5
\* The first monthly loop: for (month = 0; month < 12; month++)
MonthsOfYear == 12
\* Largest number of passes of the polling loop before its deadline.
MaxPolls == 2

\* --------------------------------------------------------------- messages
MsgSuccess == "Data retrieval successful"
MsgSkipped == "Skipped - Profile in use by another user"
MsgStartFailed == "Start failed"
MsgConflict == "Profile conflict (409) - could not get port"
MsgRequestFailed == "Request failed with status code 500"
MsgTimeout == "Timeout: Could not find seller_id in Network, URL, or Page Content"
MsgFailedExtract == "Failed to extract seller_id or cookies"
MsgProxyDead == "Proxy dead/unavailable"
MsgNetTimeout == "Network timeout"
MsgConnRefused == "Connection refused"
MsgDnsFailed == "DNS resolution failed"

\* Messages of the errors the browser phase of fetchTikTokDataFast can throw:
\* the four Chromium net errors the code names, the deadline error it throws
\* itself, and any other puppeteer error.
ErrProxy == "net::ERR_PROXY_CONNECTION_FAILED"
ErrTimedOut == "net::ERR_TIMED_OUT"
ErrRefused == "net::ERR_CONNECTION_REFUSED"
ErrDns == "net::ERR_NAME_NOT_RESOLVED"
ErrOther == "Protocol error: Target closed"
NoError == "none"
BrowserErrors == {ErrProxy, ErrTimedOut, ErrRefused, ErrDns, ErrOther, MsgTimeout}

PidNames == <<"p1", "p2", "p3", "p4", "p5", "p6">>

VARIABLES
    \* batch-fetch-tiktok
    profileIds,        \* the handler's argument
    mainPc,            \* position of the handler: "loop", "awaitAll", "cooldown", "returned"
    chunkI,            \* the chunk loop's i
    results,           \* the results array
    pc,                \* position of each job (processProfile and what it awaits)
    retryCount,        \* processProfile's retryCount
    rec,               \* the record a job's promise resolved with
    sellerId,          \* fetchTikTokDataFast locals
    cookies,
    lastNetworkError,
    err,               \* the error caught by processProfile's catch
    faults,            \* failing answers given so far
    \* history of each job
    attempts,          \* start requests issued
    via,               \* how the current attempt got its port: "none", "start", "status"
    stopCnt,           \* stop requests issued in the current attempt
    denied,            \* a start request of the job was answered 400
    timeouts,          \* attempts whose extraction ran into the deadline
    \* window slots
    usedWindowPositions,
    windowIndex,       \* slot each login-tiktok invocation holds, or NoSlot
    overflowed,        \* more than MAX_WINDOWS acquisitions were held at once
    wrapped,           \* getNextWindowPosition wrapped around since the set was last idle
    inLogin,           \* the invocation is between its acquisition and its return
    \* one call of loginTikTokSeller
    spc,               \* the statement the call is at
    secret,            \* credentials.twoFactorSecret is set
    browser,           \* the browser variable holds a connection
    url,               \* what page.url() answers
    twoFAInput,        \* the two-factor input was found
    code,              \* what get2FACode returned
    typedCode,         \* a code was typed into the page
    formActs,          \* what was done to the login form
    loginResult,       \* the LoginResult returned
    disconnects,       \* calls of browser.disconnect()
    raised,            \* messages of the exceptions thrown by the awaited steps
    escaped,           \* message of the exception that reached a catch block that returns
    \* invocations of the login-tiktok handler
    loginPc,           \* what the invocation awaits
    loginVia,          \* how it got its port: "none", "start", "status"
    loginStops,        \* stop requests it issued
    handlerResult,     \* what it returned
    loginArgs,         \* the profileId and profileName it was invoked with
    credentials,       \* the handler's credentials variable
    loginTrail,        \* what it has done: start and status requests, slot, login
    \* credentials-reader
    sessionCredentials, \* the module's sessionCredentials array
    prevCredentials,   \* sessionCredentials before the last call
    lastSheet,         \* the rows the last load read
    loadResult,        \* what the last load returned
    lastCall,          \* the last call made to the module
    \* one call of fetchTikTokDataFast
    fpc,               \* what the call awaits
    session,           \* what the live session exposes to the three strategies
    currentMonth,      \* now.getMonth()
    fastBrowser,       \* the browser variable holds a connection
    fastPage,          \* the page variable holds a page
    sellerInfo,        \* the try block's sellerInfo
    foundSource,       \* the try block's foundSource
    polls,             \* passes of the polling loop left before the deadline
    harvest,           \* the outer sellerId, oecSellerId, cookies and lastNetworkError
    closeAttempts,     \* calls of page.close()
    disconnectAttempts, \* calls of browser.disconnect()
    fastStops,         \* stop requests issued
    apiLog,            \* the direct requests issued, in order
    onHoldAmount,
    sumAmount,
    monthlyData,
    fastOutcome,       \* how the call ended
    fastFaults,        \* failing or unusual answers given so far
    failedRequests,    \* the direct requests that failed
    firstInfo,         \* the first identity a strategy found
    caught,            \* message of the error the try block threw
    \* the renderer window and what the batch handler told it
    mainWindow,        \* the mainWindow variable holds a window (not null)
    events,            \* the 'fetch-progress' messages sent, in order
    stopFailed         \* jobs one of whose catch-block stop requests failed

batchVars == <<profileIds, mainPc, chunkI, results, pc, retryCount, rec, sellerId,
               cookies, lastNetworkError, err, faults, attempts, via, stopCnt, denied,
               timeouts>>
slotVars == <<usedWindowPositions, windowIndex, overflowed, wrapped, inLogin>>
sellerVars == <<spc, secret, browser, url, twoFAInput, code, typedCode, formActs,
                loginResult, disconnects, raised, escaped>>
handlerVars == <<loginPc, loginVia, loginStops, handlerResult, loginArgs, credentials,
                 loginTrail>>
credVars == <<sessionCredentials, prevCredentials, lastSheet, loadResult, lastCall>>
fastVars == <<fpc, session, currentMonth, fastBrowser, fastPage, sellerInfo, foundSource, polls,
              harvest, closeAttempts, disconnectAttempts, fastStops, apiLog, onHoldAmount,
              sumAmount, monthlyData, fastOutcome, fastFaults, failedRequests, firstInfo,
              caught>>
progressVars == <<mainWindow, events, stopFailed>>
restVars == <<credVars, fastVars, progressVars>>
nonBatchVars == <<slotVars, sellerVars, handlerVars, restVars>>
vars == <<batchVars, slotVars, sellerVars, handlerVars, restVars>>

N == Len(profileIds)
Jobs == 1..N
Min(a, b) == IF a < b THEN a ELSE b

NoRecord == [profileId |-> "", success |-> FALSE, message |-> ""]
NoSlot == -1
Invocations == 1..MaxInvocations

InitBatch ==
    /\ \E n \in 0..MaxProfiles : profileIds = SubSeq(PidNames, 1, n)
    /\ mainPc = "loop"
    /\ chunkI = 0
    /\ results = <<>>
    /\ pc = [j \in 1..Len(profileIds) |-> "idle"]
    /\ retryCount = [j \in 1..Len(profileIds) |-> 0]
    /\ rec = [j \in 1..Len(profileIds) |-> NoRecord]
    /\ sellerId = [j \in 1..Len(profileIds) |-> ""]
    /\ cookies = [j \in 1..Len(profileIds) |-> 0]
    /\ lastNetworkError = [j \in 1..Len(profileIds) |-> ""]
    /\ err = [j \in 1..Len(profileIds) |-> ""]
    /\ faults = 0
    /\ attempts = [j \in 1..Len(profileIds) |-> 0]
    /\ via = [j \in 1..Len(profileIds) |-> "none"]
    /\ stopCnt = [j \in 1..Len(profileIds) |-> 0]
    /\ denied = [j \in 1..Len(profileIds) |-> FALSE]
    /\ timeouts = [j \in 1..Len(profileIds) |-> 0]

InitSlots ==
    /\ usedWindowPositions = {}
    /\ windowIndex = [h \in Invocations |-> NoSlot]
    /\ overflowed = FALSE
    /\ wrapped = FALSE
    /\ inLogin = [h \in Invocations |-> FALSE]

NoResult == [success |-> FALSE, message |-> <<>>, requires2FA |-> FALSE]
NoCode == "none"
NoException == "none"

InitSeller ==
    /\ spc = "idle"
    /\ secret = FALSE
    /\ browser = FALSE
    /\ url = "blank"
    /\ twoFAInput = FALSE
    /\ code = NoCode
    /\ typedCode = FALSE
    /\ formActs = {}
    /\ loginResult = NoResult
    /\ disconnects = 0
    /\ raised = {}
    /\ escaped = NoException

Logins == 1..MaxLogins

MsgMissingCredentials == "Missing credentials for profile. Please upload the Excel file containing this profile!"
MsgInUseByAnother == "Profile is in use by another user"
MsgFailedToStart == "Failed to start profile"
MsgLoginConflict == "Profile conflict - could not get port"

NoProfile == [profileId |-> <<>>, profileName |-> <<>>, email |-> <<>>, password |-> <<>>,
              twoFactorSecret |-> <<>>, found |-> FALSE]
Found(p) == [profileId |-> p.profileId, profileName |-> p.profileName, email |-> p.email,
             password |-> p.password, twoFactorSecret |-> p.twoFactorSecret, found |-> TRUE]

NoArgs == [profileId |-> <<>>, profileName |-> <<>>]

InitHandler ==
    /\ loginPc = [h \in Logins |-> "idle"]
    /\ loginVia = [h \in Logins |-> "none"]
    /\ loginStops = [h \in Logins |-> 0]
    /\ handlerResult = [h \in Logins |-> NoResult]
    /\ loginArgs = [h \in Logins |-> NoArgs]
    /\ credentials = [h \in Logins |-> NoProfile]
    /\ loginTrail = [h \in Logins |-> {}]

InitCreds ==
    /\ sessionCredentials = <<>>
    /\ prevCredentials = <<>>
    /\ lastSheet = <<>>
    /\ loadResult = [success |-> FALSE, count |-> 0, message |-> ""]
    /\ lastCall = "none"

NoInfo == [sellerId |-> "", oecSellerId |-> ""]
NoHarvest == [sellerId |-> "", oecSellerId |-> "", cookies |-> 0, lastNetworkError |-> ""]
NoSession == [responses |-> {}, location |-> {}, blob |-> FALSE]
NoOutcome == [returned |-> FALSE, error |-> ""]

InitFast ==
    /\ fpc = "idle"
    /\ session = NoSession
    /\ currentMonth = 0
    /\ fastBrowser = FALSE
    /\ fastPage = FALSE
    /\ sellerInfo = NoInfo
    /\ foundSource = ""
    /\ polls = 0
    /\ harvest = NoHarvest
    /\ closeAttempts = 0
    /\ disconnectAttempts = 0
    /\ fastStops = 0
    /\ apiLog = <<>>
    /\ onHoldAmount = ""
    /\ sumAmount = ""
    /\ monthlyData = <<>>
    /\ fastOutcome = NoOutcome
    /\ fastFaults = 0
    /\ failedRequests = {}
    /\ firstInfo = NoInfo
    /\ caught = NoError

\* The window exists once createWindow has run; nothing was sent yet.
InitProgress ==
    /\ mainWindow = TRUE
    /\ events = <<>>
    /\ stopFailed = {}

Init == InitBatch /\ InitSlots /\ InitSeller /\ InitHandler /\ InitCreds /\ InitFast /\ InitProgress

\* ------------------------------------------------------ batch-fetch-tiktok

\* A slice that is one too long: profileIds.slice(i, i + CHUNK_SIZE + 1).
ChunkOfOneMore(i) == (i + 1)..Min(i + CHUNK_SIZE + 1, N)

\* for (let i = 0; ...; i += CHUNK_SIZE) { chunk = profileIds.slice(i, i + CHUNK_SIZE)
\* The jobs (1-based positions in profileIds) of the chunk that starts at i.
ChunkOf(i) == (i + 1)..Min(i + CHUNK_SIZE, N)

\* error.message.includes('Skipped') || error.message.includes('in use'): of the
\* messages above only the skipped record's message contains either text.
IsInUseMessage(m) == m \in {MsgSkipped}

\* The retry test off by one: retryCount <= MAX_RETRIES.
ShouldRetryOnceMore(rc) == rc <= MAX_RETRIES

\* if (retryCount < MAX_RETRIES)
ShouldRetry(rc) == rc < MAX_RETRIES

\* The catch block of fetchTikTokDataFast: the reason kept in lastNetworkError.
ClassifyNetworkError(errorMsg) ==
    IF errorMsg = ErrProxy THEN MsgProxyDead
    ELSE IF errorMsg = ErrTimedOut THEN MsgNetTimeout
    ELSE IF errorMsg = ErrRefused THEN MsgConnRefused
    ELSE IF errorMsg = ErrDns THEN MsgDnsFailed
    ELSE ""

\* The check throws the generic error whatever lastNetworkError holds.
ExtractionFailureGeneric(lne) == MsgFailedExtract

\* if (!sellerId || cookies.length === 0) { throw lastNetworkError or the generic error }
ExtractionFailureMessage(lne) == IF lne # "" THEN lne ELSE MsgFailedExtract

SuccessRecord(j) == [profileId |-> profileIds[j], success |-> TRUE, message |-> MsgSuccess]

\* A failure record built from an error that has no message.
FailureRecordNoMessage(j, m) == [profileId |-> profileIds[j], success |-> FALSE, message |-> ""]

FailureRecord(j, m) == [profileId |-> profileIds[j], success |-> FALSE, message |-> m]

\* fetchTikTokDataFast without its stop request.
NoFastStopRequest(j) == stopCnt' = stopCnt

\* await axios.post(.../profiles/stop/<id>) inside fetchTikTokDataFast
FastStopRequest(j) == stopCnt' = [stopCnt EXCEPT ![j] = @ + 1]

\* processProfile's catch without its stop request.
NoCatchStopRequest(j) == stopCnt' = stopCnt

\* processProfile's catch stopping the profile only when the attempt got a port.
CatchStopIfPort(j) ==
    stopCnt' = [stopCnt EXCEPT ![j] = IF via[j] # "none" THEN @ + 1 ELSE @]

\* try { await axios.post(.../profiles/stop/<id>) } catch (e) { } in processProfile's catch
CatchStopRequest(j) == stopCnt' = [stopCnt EXCEPT ![j] = @ + 1]

\* An error reaches processProfile's catch: the locals of the attempt are gone,
\* the error is logged and the stop request is issued.
EnterCatch(j, m) ==
    /\ pc' = [pc EXCEPT ![j] = "catchStop"]
    /\ err' = [err EXCEPT ![j] = m]
    /\ sellerId' = [sellerId EXCEPT ![j] = ""]
    /\ cookies' = [cookies EXCEPT ![j] = 0]
    /\ lastNetworkError' = [lastNetworkError EXCEPT ![j] = ""]
    /\ CatchStopRequest(j)

\* The environment gives one more failing answer.
Fault == faults < MaxFaults /\ faults' = faults + 1

\* mainWindow?.webContents.send('fetch-progress', ...): nothing is sent when the
\* window is gone.
Send(msgs) == events' = IF mainWindow THEN events \o msgs ELSE events

\* { current: i, total: profileIds.length, profileId: 'Chunk n running...', status: 'running' }
RunningEvent(i) ==
    [current |-> i, total |-> N, profileId |-> "Chunk running", status |-> "running"]

\* Every record reported as a success.
CompletionStatusAlwaysSuccess(r) == "success"

\* status: r.success ? 'success' : 'error'
CompletionStatus(r) == IF r.success THEN "success" ELSE "error"

\* chunkResults.forEach(r => send({ current: results.length, total, profileId: r.profileId,
\* status })), after results.push(...chunkResults)
CompletionEvents(chunk, done) ==
    [k \in 1..Len(chunk) |->
        [current |-> done, total |-> N, profileId |-> chunk[k].profileId,
         status |-> CompletionStatus(chunk[k])]]

\* The chunk loop's head: the 'running' message is sent, then the chunk's promises are
\* created; each job sleeps idx * 1000.
ChunkStart ==
    /\ mainPc = "loop"
    /\ chunkI < N
    /\ mainPc' = "awaitAll"
    /\ pc' = [j \in Jobs |-> IF j \in ChunkOf(chunkI) THEN "stagger" ELSE pc[j]]
    /\ Send(<<RunningEvent(chunkI)>>)
    /\ UNCHANGED <<slotVars, sellerVars, handlerVars, credVars, fastVars, mainWindow, stopFailed, profileIds, chunkI, results, retryCount, rec, sellerId, cookies,
                   lastNetworkError, err, faults, attempts, via, stopCnt, denied, timeouts>>

\* The stagger timer of job j fires (timers fire in the order of their delays) and
\* processProfile issues the start request.
StaggeredStart(j) ==
    /\ pc[j] = "stagger"
    /\ \A k \in ChunkOf(chunkI) : k < j => pc[k] # "stagger"
    /\ pc' = [pc EXCEPT ![j] = "start"]
    /\ attempts' = [attempts EXCEPT ![j] = @ + 1]
    /\ UNCHANGED <<nonBatchVars, profileIds, mainPc, chunkI, results, retryCount, rec, sellerId, cookies,
                   lastNetworkError, err, faults, via, stopCnt, denied, timeouts>>

\* start answers code 1, success: port = startResponse.data.data.port
StartOk(j) ==
    /\ pc[j] = "start"
    /\ via' = [via EXCEPT ![j] = "start"]
    /\ pc' = [pc EXCEPT ![j] = "browser"]
    /\ UNCHANGED <<nonBatchVars, profileIds, mainPc, chunkI, results, retryCount, rec, sellerId, cookies,
                   lastNetworkError, err, faults, attempts, stopCnt, denied, timeouts>>

\* start answers 409: the status request is issued
StartConflict(j) ==
    /\ pc[j] = "start"
    /\ Fault
    /\ pc' = [pc EXCEPT ![j] = "status"]
    /\ UNCHANGED <<nonBatchVars, profileIds, mainPc, chunkI, results, retryCount, rec, sellerId, cookies,
                   lastNetworkError, err, attempts, via, stopCnt, denied, timeouts>>

\* A 400 handled like any other start error: thrown to the catch and retried.
StartDeniedThrown(j) ==
    /\ pc[j] = "start"
    /\ Fault
    /\ denied' = [denied EXCEPT ![j] = TRUE]
    /\ EnterCatch(j, MsgRequestFailed)
    /\ UNCHANGED <<nonBatchVars, profileIds, mainPc, chunkI, results, retryCount, rec, attempts, via,
                   timeouts>>

\* A 400 thrown to the catch as an 'in use' error: stop request, then the record.
StartDeniedToCatch(j) ==
    /\ pc[j] = "start"
    /\ Fault
    /\ denied' = [denied EXCEPT ![j] = TRUE]
    /\ EnterCatch(j, MsgSkipped)
    /\ UNCHANGED <<nonBatchVars, profileIds, mainPc, chunkI, results, retryCount, rec, attempts, via,
                   timeouts>>

\* start answers 400: return the skipped record from inside the try
StartDenied(j) ==
    /\ pc[j] = "start"
    /\ Fault
    /\ denied' = [denied EXCEPT ![j] = TRUE]
    /\ rec' = [rec EXCEPT ![j] = FailureRecord(j, MsgSkipped)]
    /\ pc' = [pc EXCEPT ![j] = "done"]
    /\ UNCHANGED <<nonBatchVars, profileIds, mainPc, chunkI, results, retryCount, sellerId, cookies,
                   lastNetworkError, err, attempts, via, stopCnt, timeouts>>

\* start answers code # 1 (throw new Error('Start failed')) or fails in any other
\* way (throw startError)
StartError(j) ==
    /\ pc[j] = "start"
    /\ Fault
    /\ \E m \in {MsgStartFailed, MsgRequestFailed} : EnterCatch(j, m)
    /\ UNCHANGED <<nonBatchVars, profileIds, mainPc, chunkI, results, retryCount, rec, attempts, via,
                   denied, timeouts>>

\* A status answer with a port that is thrown away: the attempt fails as a conflict.
StatusPortDropped(j) ==
    /\ pc[j] = "status"
    /\ via' = [via EXCEPT ![j] = "status"]
    /\ EnterCatch(j, MsgConflict)
    /\ UNCHANGED <<nonBatchVars, profileIds, mainPc, chunkI, results, retryCount, rec, faults, attempts,
                   denied, timeouts>>

\* status answers with a port
StatusPort(j) ==
    /\ pc[j] = "status"
    /\ via' = [via EXCEPT ![j] = "status"]
    /\ pc' = [pc EXCEPT ![j] = "browser"]
    /\ UNCHANGED <<nonBatchVars, profileIds, mainPc, chunkI, results, retryCount, rec, sellerId, cookies,
                   lastNetworkError, err, faults, attempts, stopCnt, denied, timeouts>>

\* status answers without a port, or fails
StatusFailed(j) ==
    /\ pc[j] = "status"
    /\ Fault
    /\ EnterCatch(j, MsgConflict)
    /\ UNCHANGED <<nonBatchVars, profileIds, mainPc, chunkI, results, retryCount, rec, attempts, via,
                   denied, timeouts>>

\* sleep(3000), then fetchTikTokDataFast up to the end of its try / catch, where the
\* stop request is issued.
\* sellerFound: line "sellerId = sellerInfo.sellerId" was reached; cookiesFound:
\* page.cookies returned a non-empty list; thrown: the error the try block threw.
BrowserPhase(j) ==
    /\ pc[j] = "browser"
    /\ \E sellerFound \in BOOLEAN, cookiesFound \in BOOLEAN, thrown \in BrowserErrors \cup {NoError} :
        /\ thrown = NoError => sellerFound
        /\ thrown = MsgTimeout => ~sellerFound
        /\ cookiesFound => sellerFound
        /\ IF sellerFound /\ cookiesFound /\ thrown = NoError
              THEN UNCHANGED faults
              ELSE Fault
        /\ sellerId' = [sellerId EXCEPT ![j] = IF sellerFound THEN "sid" ELSE ""]
        /\ cookies' = [cookies EXCEPT ![j] = IF cookiesFound THEN 1 ELSE 0]
        /\ lastNetworkError' = [lastNetworkError EXCEPT ![j] = ClassifyNetworkError(thrown)]
        /\ timeouts' = [timeouts EXCEPT ![j] = IF thrown = MsgTimeout THEN @ + 1 ELSE @]
    /\ FastStopRequest(j)
    /\ pc' = [pc EXCEPT ![j] = "stop"]
    /\ UNCHANGED <<nonBatchVars, profileIds, mainPc, chunkI, results, retryCount, rec, err, attempts, via,
                   denied>>

\* The stop request returns (its failure is only logged); then the check of what
\* was captured: throw, or issue the on-hold statistic request.
StopResponse(j) ==
    /\ pc[j] = "stop"
    /\ IF sellerId[j] = "" \/ cookies[j] = 0
          THEN EnterCatch(j, ExtractionFailureMessage(lastNetworkError[j]))
          ELSE /\ pc' = [pc EXCEPT ![j] = "api"]
               /\ UNCHANGED <<sellerId, cookies, lastNetworkError, err, stopCnt>>
    /\ UNCHANGED <<nonBatchVars, profileIds, mainPc, chunkI, results, retryCount, rec, faults, attempts,
                   via, denied, timeouts>>

\* The direct API calls succeed as far as the on-hold statistic goes (the payment
\* and monthly requests cannot fail the fetch): processProfile returns the record.
ApiOk(j) ==
    /\ pc[j] = "api"
    /\ rec' = [rec EXCEPT ![j] = SuccessRecord(j)]
    /\ pc' = [pc EXCEPT ![j] = "done"]
    /\ sellerId' = [sellerId EXCEPT ![j] = ""]
    /\ cookies' = [cookies EXCEPT ![j] = 0]
    /\ lastNetworkError' = [lastNetworkError EXCEPT ![j] = ""]
    /\ UNCHANGED <<nonBatchVars, profileIds, mainPc, chunkI, results, retryCount, err, faults, attempts,
                   via, stopCnt, denied, timeouts>>

\* The on-hold statistic request fails: fetchTikTokDataFast throws.
ApiFailed(j) ==
    /\ pc[j] = "api"
    /\ Fault
    /\ EnterCatch(j, MsgRequestFailed)
    /\ UNCHANGED <<nonBatchVars, profileIds, mainPc, chunkI, results, retryCount, rec, attempts, via,
                   denied, timeouts>>

\* processProfile rethrows instead of returning a record: its promise never resolves.
FinalFailureRethrown(j) ==
    /\ pc' = [pc EXCEPT ![j] = "rejected"]
    /\ UNCHANGED rec

\* The record processProfile returns for a failure that is not retried.
FinalFailure(j) ==
    /\ rec' = [rec EXCEPT ![j] = FailureRecord(j, err[j])]
    /\ pc' = [pc EXCEPT ![j] = "done"]

\* What follows the catch's try { stop } catch (e) { }: in-use errors and exhausted
\* retries give the final record, anything else sleeps 5 s and retries.
AfterCatchStop(j) ==
    /\ IF IsInUseMessage(err[j])
          THEN FinalFailure(j)
          ELSE IF ShouldRetry(retryCount[j])
                  THEN pc' = [pc EXCEPT ![j] = "backoff"] /\ UNCHANGED rec
                  ELSE FinalFailure(j)
    /\ err' = [err EXCEPT ![j] = ""]

\* The catch's stop request fails: catch (e) { } swallows the error.
CatchStopFails(j) ==
    /\ pc[j] = "catchStop"
    /\ Fault
    /\ AfterCatchStop(j)
    /\ stopFailed' = stopFailed \cup {j}
    /\ UNCHANGED <<slotVars, sellerVars, handlerVars, credVars, fastVars, mainWindow, events, profileIds, mainPc, chunkI, results,
                   retryCount, sellerId, cookies, lastNetworkError, attempts, via, stopCnt,
                   denied, timeouts>>

\* The catch's stop request is answered.
CatchStopResponse(j) ==
    /\ pc[j] = "catchStop"
    /\ AfterCatchStop(j)
    /\ UNCHANGED <<nonBatchVars, profileIds, mainPc, chunkI, results, retryCount, sellerId, cookies,
                   lastNetworkError, faults, attempts, via, stopCnt, denied, timeouts>>

\* sleep(5000) is over: return processProfile(profileId, index, retryCount + 1),
\* which issues its start request.
Backoff(j) ==
    /\ pc[j] = "backoff"
    /\ retryCount' = [retryCount EXCEPT ![j] = @ + 1]
    /\ attempts' = [attempts EXCEPT ![j] = @ + 1]
    /\ via' = [via EXCEPT ![j] = "none"]
    /\ stopCnt' = [stopCnt EXCEPT ![j] = 0]
    /\ pc' = [pc EXCEPT ![j] = "start"]
    /\ UNCHANGED <<nonBatchVars, profileIds, mainPc, chunkI, results, rec, sellerId, cookies,
                   lastNetworkError, err, faults, denied, timeouts>>

\* Promise.race / Promise.any in place of Promise.all.
AnyResolved(chunk) == \E j \in chunk : pc[j] = "done"

\* Promise.all(chunkPromises) resolves when every promise of the chunk has.
AllResolved(chunk) == \A j \in chunk : pc[j] = "done"

\* The chunk's records pushed last job first.
ChunkResultsLastFirst(i) ==
    [k \in 1..Cardinality(ChunkOf(i)) |-> rec[i + Cardinality(ChunkOf(i)) + 1 - k]]

\* chunkResults: the records in the order of the chunk, whatever the completion order.
ChunkResults(i) == [k \in 1..Cardinality(ChunkOf(i)) |-> rec[i + k]]

\* const chunkResults = await Promise.all(chunkPromises); results.push(...chunkResults);
\* one message per record; then the cooldown when another chunk follows.
ChunkComplete ==
    /\ mainPc = "awaitAll"
    /\ AllResolved(ChunkOf(chunkI))
    /\ results' = results \o ChunkResults(chunkI)
    /\ IF chunkI + CHUNK_SIZE < N
          THEN mainPc' = "cooldown" /\ UNCHANGED chunkI
          ELSE mainPc' = "loop" /\ chunkI' = chunkI + CHUNK_SIZE
    /\ Send(CompletionEvents(ChunkResults(chunkI), Len(results) + Len(ChunkResults(chunkI))))
    /\ UNCHANGED <<slotVars, sellerVars, handlerVars, credVars, fastVars, mainWindow, stopFailed, profileIds, pc, retryCount, rec, sellerId, cookies, lastNetworkError, err,
                   faults, attempts, via, stopCnt, denied, timeouts>>

\* sleep(2000) between chunks is over; i += CHUNK_SIZE
Cooldown ==
    /\ mainPc = "cooldown"
    /\ mainPc' = "loop"
    /\ chunkI' = chunkI + CHUNK_SIZE
    /\ UNCHANGED <<nonBatchVars, profileIds, results, pc, retryCount, rec, sellerId, cookies,
                   lastNetworkError, err, faults, attempts, via, stopCnt, denied, timeouts>>

\* The handler is about to send: at the loop's head, or when the chunk's promises
\* have all resolved.
AboutToSend ==
    \/ mainPc = "loop" /\ chunkI < N
    \/ mainPc = "awaitAll" /\ AllResolved(ChunkOf(chunkI))

\* mainWindow.on('closed', () => { mainWindow = null; }) while the handler runs. The
\* handler reads mainWindow only when it sends, so a close is taken at the next send;
\* it is counted with the unusual events of the environment.
WindowClosed ==
    /\ mainWindow
    /\ AboutToSend
    /\ Fault
    /\ mainWindow' = FALSE
    /\ UNCHANGED <<slotVars, sellerVars, handlerVars, credVars, fastVars, events, stopFailed, profileIds, mainPc, chunkI, results, pc,
                   retryCount, rec, sellerId, cookies, lastNetworkError, err, attempts, via,
                   stopCnt, denied, timeouts>>

\* return { success: true, results }
Return ==
    /\ mainPc = "loop"
    /\ chunkI >= N
    /\ mainPc' = "returned"
    /\ UNCHANGED <<nonBatchVars, profileIds, chunkI, results, pc, retryCount, rec, sellerId, cookies,
                   lastNetworkError, err, faults, attempts, via, stopCnt, denied, timeouts>>

NextBatch ==
    \/ ChunkStart
    \/ \E j \in Jobs : StaggeredStart(j)
    \/ \E j \in Jobs : StartOk(j)
    \/ \E j \in Jobs : StartConflict(j)
    \/ \E j \in Jobs : StartDenied(j)
    \/ \E j \in Jobs : StartError(j)
    \/ \E j \in Jobs : StatusPort(j)
    \/ \E j \in Jobs : StatusFailed(j)
    \/ \E j \in Jobs : BrowserPhase(j)
    \/ \E j \in Jobs : StopResponse(j)
    \/ \E j \in Jobs : ApiOk(j)
    \/ \E j \in Jobs : ApiFailed(j)
    \/ \E j \in Jobs : CatchStopResponse(j)
    \/ \E j \in Jobs : Backoff(j)
    \/ ChunkComplete
    \/ Cooldown
    \/ Return

SpecBatch == Init /\ [][NextBatch]_vars

\* ------------------- batch-fetch-tiktok, with failing stop requests and the window closing

NextBatchEnv ==
    \/ ChunkStart
    \/ \E j \in Jobs : StaggeredStart(j)
    \/ \E j \in Jobs : StartOk(j)
    \/ \E j \in Jobs : StartConflict(j)
    \/ \E j \in Jobs : StartDenied(j)
    \/ \E j \in Jobs : StartError(j)
    \/ \E j \in Jobs : StatusPort(j)
    \/ \E j \in Jobs : StatusFailed(j)
    \/ \E j \in Jobs : BrowserPhase(j)
    \/ \E j \in Jobs : StopResponse(j)
    \/ \E j \in Jobs : ApiOk(j)
    \/ \E j \in Jobs : ApiFailed(j)
    \/ \E j \in Jobs : CatchStopResponse(j)
    \/ \E j \in Jobs : CatchStopFails(j)
    \/ \E j \in Jobs : Backoff(j)
    \/ ChunkComplete
    \/ Cooldown
    \/ WindowClosed
    \/ Return

SpecBatchEnv == Init /\ [][NextBatchEnv]_vars

\* --------------------------------------- batch-fetch-tiktok, requests unanswered

\* The positions at which a job awaits the answer to a request.
AwaitPositions == {"start", "status", "browser", "stop", "api", "catchStop"}

\* The position of a job whose awaited request is never answered.
HungAt(p) ==
    CASE p = "start" -> "startHung"
      [] p = "status" -> "statusHung"
      [] p = "browser" -> "browserHung"
      [] p = "stop" -> "stopHung"
      [] p = "api" -> "apiHung"
      [] p = "catchStop" -> "catchStopHung"

HungPositions == {HungAt(p) : p \in AwaitPositions}

\* The control plane, the browser or the target site never answers what job j awaits.
Unanswered(j) ==
    /\ pc[j] \in AwaitPositions
    /\ Fault
    /\ pc' = [pc EXCEPT ![j] = HungAt(pc[j])]
    /\ UNCHANGED <<nonBatchVars, profileIds, mainPc, chunkI, results, retryCount, rec, sellerId,
                   cookies, lastNetworkError, err, attempts, via, stopCnt, denied, timeouts>>

\* page.goto's timeout: 30000 and the 30 s deadline of the polling loop end the
\* browser phase of a silent browser: nothing was captured, the stop request is issued.
BrowserDeadline(j) ==
    /\ pc[j] = "browserHung"
    /\ sellerId' = [sellerId EXCEPT ![j] = ""]
    /\ cookies' = [cookies EXCEPT ![j] = 0]
    /\ lastNetworkError' = [lastNetworkError EXCEPT ![j] = ClassifyNetworkError(MsgTimeout)]
    /\ timeouts' = [timeouts EXCEPT ![j] = @ + 1]
    /\ FastStopRequest(j)
    /\ pc' = [pc EXCEPT ![j] = "stop"]
    /\ UNCHANGED <<nonBatchVars, profileIds, mainPc, chunkI, results, retryCount, rec, err,
                   faults, attempts, via, denied>>

\* axios.get(statApiUrl, { headers, timeout: 10000 }): the request of a silent
\* target fails after 10 s and fetchTikTokDataFast throws.
ApiDeadline(j) ==
    /\ pc[j] = "apiHung"
    /\ EnterCatch(j, MsgRequestFailed)
    /\ UNCHANGED <<nonBatchVars, profileIds, mainPc, chunkI, results, retryCount, rec, faults,
                   attempts, via, denied, timeouts>>

\* The start, status and stop requests are axios calls without a timeout option:
\* no step takes a job out of startHung, statusHung, stopHung or catchStopHung.
NextBatchHang ==
    \/ ChunkStart
    \/ \E j \in Jobs : StaggeredStart(j)
    \/ \E j \in Jobs : StartOk(j)
    \/ \E j \in Jobs : StartConflict(j)
    \/ \E j \in Jobs : StartDenied(j)
    \/ \E j \in Jobs : StartError(j)
    \/ \E j \in Jobs : StatusPort(j)
    \/ \E j \in Jobs : StatusFailed(j)
    \/ \E j \in Jobs : BrowserPhase(j)
    \/ \E j \in Jobs : StopResponse(j)
    \/ \E j \in Jobs : ApiOk(j)
    \/ \E j \in Jobs : ApiFailed(j)
    \/ \E j \in Jobs : CatchStopResponse(j)
    \/ \E j \in Jobs : Backoff(j)
    \/ ChunkComplete
    \/ Cooldown
    \/ Return
    \/ \E j \in Jobs : Unanswered(j)
    \/ \E j \in Jobs : BrowserDeadline(j)
    \/ \E j \in Jobs : ApiDeadline(j)

SpecBatchHang == Init /\ [][NextBatchHang]_vars

\* ------------------------------------------------------------ window slots

\* The slots of [0, MAX_WINDOWS) that are not in the used set.
FreeSlots(used) == {s \in 0..(MAX_WINDOWS - 1) : s \notin used}

\* A search that takes the last unused slot instead of the first.
NextWindowPositionHighest(used) ==
    IF FreeSlots(used) # {}
       THEN CHOOSE s \in FreeSlots(used) : \A t \in FreeSlots(used) : s >= t
       ELSE 0

\* A wrap-around that leaves the grid: return MAX_WINDOWS when no slot is unused.
NextWindowPositionPastGrid(used) ==
    IF FreeSlots(used) # {}
       THEN CHOOSE s \in FreeSlots(used) : \A t \in FreeSlots(used) : s <= t
       ELSE MAX_WINDOWS

\* getNextWindowPosition's return value: the first i of the for loop that is not
\* in the set, and 0 when the loop finds none.
NextWindowPosition(used) ==
    IF FreeSlots(used) # {}
       THEN CHOOSE s \in FreeSlots(used) : \A t \in FreeSlots(used) : s <= t
       ELSE 0

\* The used set getNextWindowPosition leaves without its add.
UsedWithoutAdd(used) == used

\* The used set getNextWindowPosition leaves: usedWindowPositions.add(i) inside the
\* loop, nothing on wrap-around.
UsedAfterAcquire(used) ==
    IF FreeSlots(used) # {} THEN used \cup {NextWindowPosition(used)} ELSE used

\* A release that empties the set: usedWindowPositions.clear().
UsedAfterClear(used, index) == {}

\* A release that toggles membership: delete when present, add when absent.
UsedAfterToggle(used, index) ==
    IF index \in used THEN used \ {index} ELSE used \cup {index}

\* releaseWindowPosition: usedWindowPositions.delete(index)
UsedAfterRelease(used, index) == used \ {index}

Holders == {h \in Invocations : windowIndex[h] # NoSlot}

\* How the awaited loginTikTokSeller call of the handler ends.
LoginOutcomes == {"succeeded", "failed", "threw"}

\* const windowIndex = getNextWindowPosition(), and the handler enters its try block
AcquireSlot(h) ==
    /\ windowIndex' = [windowIndex EXCEPT ![h] = NextWindowPosition(usedWindowPositions)]
    /\ usedWindowPositions' = UsedAfterAcquire(usedWindowPositions)
    /\ overflowed' = (overflowed \/ Cardinality(Holders) >= MAX_WINDOWS)
    /\ wrapped' = (wrapped \/ FreeSlots(usedWindowPositions) = {})
    /\ inLogin' = [inLogin EXCEPT ![h] = TRUE]

\* A release placed after the await instead of in a finally block: a login that
\* throws leaves the handler without releasing.
LoginFinallyNotOnThrow(h, outcome) ==
    /\ inLogin' = [inLogin EXCEPT ![h] = FALSE]
    /\ IF outcome = "threw"
          THEN UNCHANGED <<usedWindowPositions, windowIndex, wrapped>>
          ELSE /\ usedWindowPositions' = UsedAfterRelease(usedWindowPositions, windowIndex[h])
               /\ windowIndex' = [windowIndex EXCEPT ![h] = NoSlot]
               /\ wrapped' = (wrapped /\ Holders \ {h} # {})
    /\ UNCHANGED overflowed

\* finally { releaseWindowPosition(windowIndex) }: runs however the login ended, and
\* the handler returns.
LoginFinally(h, outcome) ==
    /\ usedWindowPositions' = UsedAfterRelease(usedWindowPositions, windowIndex[h])
    /\ windowIndex' = [windowIndex EXCEPT ![h] = NoSlot]
    /\ inLogin' = [inLogin EXCEPT ![h] = FALSE]
    /\ wrapped' = (wrapped /\ Holders \ {h} # {})
    /\ UNCHANGED overflowed

\* login-tiktok: const windowIndex = getNextWindowPosition()
LoginAcquire(h) ==
    /\ windowIndex[h] = NoSlot
    /\ ~inLogin[h]
    /\ AcquireSlot(h)
    /\ UNCHANGED <<batchVars, restVars, sellerVars, handlerVars>>

\* login-tiktok: finally { releaseWindowPosition(windowIndex) }, and the handler returns
LoginRelease(h) ==
    /\ inLogin[h]
    /\ \E outcome \in LoginOutcomes : LoginFinally(h, outcome)
    /\ UNCHANGED <<batchVars, restVars, sellerVars, handlerVars>>

NextSlots ==
    \/ \E h \in Invocations : LoginAcquire(h)
    \/ \E h \in Invocations : LoginRelease(h)

\* The slot allocator alone: no batch is running.
InitSlotsAlone ==
    InitBatch /\ profileIds = <<>> /\ InitSlots /\ InitSeller /\ InitHandler /\ InitCreds
    /\ InitFast
    /\ InitProgress

SpecSlots == InitSlotsAlone /\ [][NextSlots]_vars

\* --------------------------------------------------------- loginTikTokSeller

\* What page.url() can answer: the login page, the homepage or dashboard, a
\* seller-us address with setup=, anything else; and a login address whose query
\* string names the homepage (a redirect target) or carries setup=.
UrlKinds == {"login", "home", "setup", "other", "loginToHome", "loginSetup"}

\* Messages of the exceptions the puppeteer calls can throw.
ExceptionMessages == {"Protocol error", "Timeout exceeded"}

\* The texts the error element of the login page can hold; "" when there is none.
ErrorTexts == {"", "Incorrect password"}

\* What the TOTP service can do: answer with a token, answer without one, fail.
TotpAnswers == {"token", "empty", "error"}

MsgAlreadyLoggedIn == "Already logged in!"
MsgFormNotFound == "Login form not found and not logged in"
MsgSuccess2FA == "Login successful with 2FA!"
MsgVerifying2FA == "2FA submitted - verifying in browser..."
Msg2FAErrorPrefix == "2FA error: "
MsgManual2FA == "2FA required - please enter code manually"
MsgLoginSuccessful == "Login successful!"
MsgLoginFailedPrefix == "Login failed: "
MsgStillOnLogin == "Login failed - still on login page"
MsgCheckBrowser == "Login submitted - check browser for result"

\* includes('homepage') || includes('dashboard') || includes('setup=')
IsAuthenticatedArea(u) == u \in {"home", "setup", "loginToHome", "loginSetup"}

\* includes('homepage') || includes('dashboard')
IsHomepage(u) == u \in {"home", "loginToHome"}

\* includes('login')
IsLoginLocation(u) == u \in {"login", "loginToHome", "loginSetup"}

\* get2FACode: response.data?.token when there is one, null otherwise and on error
CodeOf(answer) == IF answer = "token" THEN "token" ELSE NoCode

SuccessResult(m) == [success |-> TRUE, message |-> <<m>>, requires2FA |-> FALSE]
FailedResult(parts) == [success |-> FALSE, message |-> parts, requires2FA |-> FALSE]
Requires2FAResult(m) == [success |-> TRUE, message |-> <<m>>, requires2FA |-> TRUE]

\* A manual-entry return that reports a failure.
ManualEntryFailure == FailedResult(<<MsgManual2FA>>)

\* return { success: true, message: '2FA required - ...', requires2FA: true }
ManualEntryResult == Requires2FAResult(MsgManual2FA)

\* await browser.disconnect(); return r
\* disconnect only closes the local transport to the browser: it is counted as an
\* attempt and is not a step that throws; page.url() is a synchronous getter.
DisconnectAndReturn(r) ==
    /\ disconnects' = disconnects + 1
    /\ loginResult' = r
    /\ spc' = "returned"

\* A catch block that logs, disconnects and throws the error on.
OuterCatchRethrows(m) ==
    /\ escaped' = m
    /\ disconnects' = IF browser THEN disconnects + 1 ELSE disconnects
    /\ spc' = "rejected"
    /\ UNCHANGED loginResult

\* catch (error) { if (browser) try { await browser.disconnect() } catch (e) { }
\*                 return { success: false, message: error.message } }
OuterCatch(m) ==
    /\ escaped' = m
    /\ disconnects' = IF browser THEN disconnects + 1 ELSE disconnects
    /\ loginResult' = FailedResult(<<m>>)
    /\ spc' = "returned"

\* catch (error) { await browser.disconnect();
\*                 return { success: false, message: `2FA error: ${error.message}` } }
InnerCatch(m) ==
    /\ escaped' = m
    /\ DisconnectAndReturn(FailedResult(<<Msg2FAErrorPrefix, m>>))

\* loginTikTokSeller(debugPort, credentials) is called.
SellerCall ==
    /\ spc = "idle"
    /\ \E sec \in BOOLEAN : secret' = sec
    /\ spc' = "connect"
    /\ UNCHANGED <<batchVars, restVars, slotVars, handlerVars, browser, url, twoFAInput, code, typedCode, formActs,
                   loginResult, disconnects, raised, escaped>>

\* browser = await puppeteer.connect(...)
Connect ==
    /\ spc = "connect"
    /\ browser' = TRUE
    /\ spc' = "pages"
    /\ UNCHANGED <<batchVars, restVars, slotVars, handlerVars, secret, url, twoFAInput, code, typedCode, formActs,
                   loginResult, disconnects, raised, escaped>>

\* pages = await browser.pages(); page = pages[0] or await browser.newPage()
Pages ==
    /\ spc = "pages"
    /\ spc' = "goto"
    /\ UNCHANGED <<batchVars, restVars, slotVars, handlerVars, secret, browser, url, twoFAInput, code, typedCode,
                   formActs, loginResult, disconnects, raised, escaped>>

\* The navigation without the already-logged-in check: always on to the form.
GotoWithoutCheck ==
    /\ spc = "goto"
    /\ \E u \in UrlKinds : url' = u
    /\ spc' = "waitForm"
    /\ UNCHANGED <<batchVars, restVars, slotVars, handlerVars, secret, browser, twoFAInput, code, typedCode,
                   formActs, loginResult, disconnects, raised, escaped>>

\* await page.goto(login page); await sleep(3000); the already-logged-in check
Goto ==
    /\ spc = "goto"
    /\ \E u \in UrlKinds :
           /\ url' = u
           /\ IF IsAuthenticatedArea(u)
                 THEN DisconnectAndReturn(SuccessResult(MsgAlreadyLoggedIn))
                 ELSE /\ spc' = "waitForm"
                      /\ UNCHANGED <<loginResult, disconnects>>
    /\ UNCHANGED <<batchVars, restVars, slotVars, handlerVars, secret, browser, twoFAInput, code, typedCode,
                   formActs, raised, escaped>>

\* await page.waitForSelector('#email_input', ...) finds the input; sleep(1000)
WaitFormOk ==
    /\ spc = "waitForm"
    /\ spc' = "clear"
    /\ UNCHANGED <<batchVars, restVars, slotVars, handlerVars, secret, browser, url, twoFAInput, code, typedCode,
                   formActs, loginResult, disconnects, raised, escaped>>

\* The wait for the form throws: the catch looks at the URL again and either
\* returns 'Already logged in!' or throws 'Login form not found and not logged in'.
WaitFormFails ==
    /\ spc = "waitForm"
    /\ \E m \in ExceptionMessages, u \in UrlKinds :
           /\ raised' = raised \cup {m}
           /\ url' = u
           /\ IF IsAuthenticatedArea(u)
                 THEN /\ DisconnectAndReturn(SuccessResult(MsgAlreadyLoggedIn))
                      /\ UNCHANGED escaped
                 ELSE OuterCatch(MsgFormNotFound)
    /\ UNCHANGED <<batchVars, restVars, slotVars, handlerVars, secret, browser, twoFAInput, code, typedCode,
                   formActs>>

\* await page.evaluate(() => { both inputs cleared })
ClearInputs ==
    /\ spc = "clear"
    /\ formActs' = formActs \cup {"clear"}
    /\ spc' = "typeEmail"
    /\ UNCHANGED <<batchVars, restVars, slotVars, handlerVars, secret, browser, url, twoFAInput, code, typedCode,
                   loginResult, disconnects, raised, escaped>>

\* await humanType(page, '#email_input', credentials.email)
TypeEmail ==
    /\ spc = "typeEmail"
    /\ formActs' = formActs \cup {"email"}
    /\ spc' = "typePassword"
    /\ UNCHANGED <<batchVars, restVars, slotVars, handlerVars, secret, browser, url, twoFAInput, code, typedCode,
                   loginResult, disconnects, raised, escaped>>

\* await humanType(page, '#email_password_input', credentials.password)
TypePassword ==
    /\ spc = "typePassword"
    /\ formActs' = formActs \cup {"password"}
    /\ spc' = "click"
    /\ UNCHANGED <<batchVars, restVars, slotVars, handlerVars, secret, browser, url, twoFAInput, code, typedCode,
                   loginResult, disconnects, raised, escaped>>

\* The loop over loginButtonSelectors: an exception of page.$ or of click is
\* swallowed by the loop's catch; clicked says whether a button was clicked.
ClickLogin ==
    /\ spc = "click"
    /\ \E swallowed \in SUBSET ExceptionMessages, clicked \in BOOLEAN :
           /\ raised' = raised \cup swallowed
           /\ IF clicked
                 THEN /\ formActs' = formActs \cup {"click"}
                      /\ spc' = "wait2FA"
                 ELSE /\ spc' = "pressEnter"
                      /\ UNCHANGED formActs
    /\ UNCHANGED <<batchVars, restVars, slotVars, handlerVars, secret, browser, url, twoFAInput, code, typedCode,
                   loginResult, disconnects, escaped>>

\* if (!clicked) await page.keyboard.press('Enter')
PressEnter ==
    /\ spc = "pressEnter"
    /\ formActs' = formActs \cup {"enter"}
    /\ spc' = "wait2FA"
    /\ UNCHANGED <<batchVars, restVars, slotVars, handlerVars, secret, browser, url, twoFAInput, code, typedCode,
                   loginResult, disconnects, raised, escaped>>

\* twoFAInput = await page.waitForSelector(twoFAInputSelector, ...) finds the
\* input; without a secret the manual-entry result is returned at once.
Wait2FAFound ==
    /\ spc = "wait2FA"
    /\ twoFAInput' = TRUE
    /\ IF secret
          THEN /\ spc' = "getCode"
               /\ UNCHANGED <<loginResult, disconnects>>
          ELSE DisconnectAndReturn(ManualEntryResult)
    /\ UNCHANGED <<batchVars, restVars, slotVars, handlerVars, secret, browser, url, code, typedCode, formActs,
                   raised, escaped>>

\* The final check asking for a login location before it asks for the homepage.
Wait2FAFailsLoginFirst ==
    /\ spc = "wait2FA"
    /\ \E m \in ExceptionMessages, u \in UrlKinds :
           /\ raised' = raised \cup {m}
           /\ url' = u
           /\ IF IsLoginLocation(u)
                 THEN /\ spc' = "scrape"
                      /\ UNCHANGED <<loginResult, disconnects>>
                 ELSE IF IsHomepage(u)
                         THEN DisconnectAndReturn(SuccessResult(MsgLoginSuccessful))
                         ELSE DisconnectAndReturn(SuccessResult(MsgCheckBrowser))
    /\ UNCHANGED <<batchVars, restVars, slotVars, handlerVars, secret, browser, twoFAInput, code, typedCode,
                   formActs, escaped>>

\* The wait for the two-factor input throws and the catch only logs; the outcome is
\* decided by page.url(), and a login location goes on to scrape the error text.
Wait2FAFails ==
    /\ spc = "wait2FA"
    /\ \E m \in ExceptionMessages, u \in UrlKinds :
           /\ raised' = raised \cup {m}
           /\ url' = u
           /\ IF IsHomepage(u)
                 THEN DisconnectAndReturn(SuccessResult(MsgLoginSuccessful))
                 ELSE IF IsLoginLocation(u)
                         THEN /\ spc' = "scrape"
                              /\ UNCHANGED <<loginResult, disconnects>>
                         ELSE DisconnectAndReturn(SuccessResult(MsgCheckBrowser))
    /\ UNCHANGED <<batchVars, restVars, slotVars, handlerVars, secret, browser, twoFAInput, code, typedCode,
                   formActs, escaped>>

\* errorMsg = await page.evaluate(...); await browser.disconnect(); return failure
Scrape ==
    /\ spc = "scrape"
    /\ \E errorMsg \in ErrorTexts :
           DisconnectAndReturn(IF errorMsg # ""
                                  THEN FailedResult(<<MsgLoginFailedPrefix, errorMsg>>)
                                  ELSE FailedResult(<<MsgStillOnLogin>>))
    /\ UNCHANGED <<batchVars, restVars, slotVars, handlerVars, secret, browser, url, twoFAInput, code, typedCode,
                   formActs, raised, escaped>>

\* code = await get2FACode(credentials.twoFactorSecret); without a code the
\* manual-entry result is returned.
GetCode ==
    /\ spc = "getCode"
    /\ \E answer \in TotpAnswers :
           /\ code' = CodeOf(answer)
           /\ IF CodeOf(answer) # NoCode
                 THEN /\ spc' = "enterCode"
                      /\ UNCHANGED <<loginResult, disconnects>>
                 ELSE DisconnectAndReturn(ManualEntryResult)
    /\ UNCHANGED <<batchVars, restVars, slotVars, handlerVars, secret, browser, url, twoFAInput, typedCode,
                   formActs, raised, escaped>>

\* await page.click(twoFAInputSelector); the code is typed character by character
EnterCode ==
    /\ spc = "enterCode"
    /\ typedCode' = TRUE
    /\ spc' = "submit2FA"
    /\ UNCHANGED <<batchVars, restVars, slotVars, handlerVars, secret, browser, url, twoFAInput, code, formActs,
                   loginResult, disconnects, raised, escaped>>

\* submitBtn = await page.$(...); click it, or press Enter
Submit2FA ==
    /\ spc = "submit2FA"
    /\ spc' = "waitRedirect"
    /\ UNCHANGED <<batchVars, restVars, slotVars, handlerVars, secret, browser, url, twoFAInput, code, typedCode,
                   formActs, loginResult, disconnects, raised, escaped>>

\* await page.waitForFunction(location is homepage or dashboard) returns
RedirectOk ==
    /\ spc = "waitRedirect"
    /\ \E u \in UrlKinds : IsHomepage(u) /\ url' = u
    /\ DisconnectAndReturn(SuccessResult(MsgSuccess2FA))
    /\ UNCHANGED <<batchVars, restVars, slotVars, handlerVars, secret, browser, twoFAInput, code, typedCode,
                   formActs, raised, escaped>>

\* A redirect timeout handled by the code entry's catch: a '2FA error' failure.
RedirectFailsReported ==
    /\ spc = "waitRedirect"
    /\ \E m \in ExceptionMessages, u \in UrlKinds :
           /\ raised' = raised \cup {m}
           /\ url' = u
           /\ InnerCatch(m)
    /\ UNCHANGED <<batchVars, restVars, slotVars, handlerVars, secret, browser, twoFAInput, code, typedCode,
                   formActs>>

\* The wait for the redirect throws and the catch only logs; page.url() decides.
RedirectFails ==
    /\ spc = "waitRedirect"
    /\ \E m \in ExceptionMessages, u \in UrlKinds :
           /\ raised' = raised \cup {m}
           /\ url' = u
           /\ IF IsHomepage(u)
                 THEN DisconnectAndReturn(SuccessResult(MsgSuccess2FA))
                 ELSE DisconnectAndReturn(Requires2FAResult(MsgVerifying2FA))
    /\ UNCHANGED <<batchVars, restVars, slotVars, handlerVars, secret, browser, twoFAInput, code, typedCode,
                   formActs, escaped>>

\* An awaited step inside the try block of the code entry throws: the inner catch.
\* A throw while typing may leave part of the code typed.
TwoFAStepThrows ==
    /\ spc \in {"enterCode", "submit2FA"}
    /\ \E m \in ExceptionMessages :
           /\ raised' = raised \cup {m}
           /\ InnerCatch(m)
    /\ IF spc = "enterCode"
          THEN \E typed \in BOOLEAN : typedCode' = typed
          ELSE UNCHANGED typedCode
    /\ UNCHANGED <<batchVars, restVars, slotVars, handlerVars, secret, browser, url, twoFAInput, code, formActs>>

\* An awaited step that no inner try guards throws: the outer catch.
StepThrows ==
    /\ spc \in {"connect", "pages", "goto", "clear", "typeEmail", "typePassword",
                "pressEnter", "scrape"}
    /\ \E m \in ExceptionMessages :
           /\ raised' = raised \cup {m}
           /\ OuterCatch(m)
    /\ UNCHANGED <<batchVars, restVars, slotVars, handlerVars, secret, browser, url, twoFAInput, code, typedCode,
                   formActs>>

NextSeller ==
    \/ SellerCall
    \/ Connect
    \/ Pages
    \/ Goto
    \/ WaitFormOk
    \/ WaitFormFails
    \/ ClearInputs
    \/ TypeEmail
    \/ TypePassword
    \/ ClickLogin
    \/ PressEnter
    \/ Wait2FAFound
    \/ Wait2FAFails
    \/ Scrape
    \/ GetCode
    \/ EnterCode
    \/ Submit2FA
    \/ RedirectOk
    \/ RedirectFails
    \/ TwoFAStepThrows
    \/ StepThrows

\* One call of loginTikTokSeller: no batch is running and no slot is held.
InitSellerAlone ==
    InitBatch /\ profileIds = <<>> /\ InitSlots /\ InitSeller /\ InitHandler /\ InitCreds
    /\ InitFast
    /\ InitProgress

SpecSeller == InitSellerAlone /\ [][NextSeller]_vars

\* ---------------------------------------------- credentials-reader: lookups
\* Strings are sequences of characters, so that trim and toLowerCase are computed.

\* String.prototype.trim on the characters used here: blanks go from both ends.
RECURSIVE TrimLeft(_)
TrimLeft(s) == IF s # <<>> /\ Head(s) = " " THEN TrimLeft(Tail(s)) ELSE s
RECURSIVE TrimRight(_)
TrimRight(s) ==
    IF s # <<>> /\ s[Len(s)] = " " THEN TrimRight(SubSeq(s, 1, Len(s) - 1)) ELSE s
Trim(s) == TrimRight(TrimLeft(s))

LowerChar(c) == CASE c = "A" -> "a" [] c = "B" -> "b" [] OTHER -> c
\* String.prototype.toLowerCase
ToLowerCase(s) == [i \in 1..Len(s) |-> LowerChar(s[i])]

\* String.prototype.includes
Includes(s, part) ==
    \E i \in 1..(Len(s) - Len(part) + 1) : SubSeq(s, i, i + Len(part) - 1) = part

\* A sheet row after its keys were normalised; <<>> is a cell that is absent.
RowP1 == [id |-> <<"1">>, name |-> <<"A">>, email |-> <<"e">>, password |-> <<"x">>,
          twofactorsecret |-> <<"s">>]
RowP1Padded == [id |-> <<" ", "1">>, name |-> <<"a", "b", " ">>, email |-> <<"e", " ">>,
                password |-> <<"x">>, twofactorsecret |-> <<>>]
RowP2NoName == [id |-> <<"2">>, name |-> <<>>, email |-> <<"f">>, password |-> <<"y">>,
                twofactorsecret |-> <<>>]
RowNoEmail == [id |-> <<"2">>, name |-> <<"B">>, email |-> <<>>, password |-> <<"y">>,
               twofactorsecret |-> <<>>]
RowNoPassword == [id |-> <<"1">>, name |-> <<"A">>, email |-> <<"e">>, password |-> <<>>,
                  twofactorsecret |-> <<>>]
RowNoId == [id |-> <<>>, name |-> <<"A">>, email |-> <<"e">>, password |-> <<"x">>,
            twofactorsecret |-> <<>>]
RawRows == {RowP1, RowP1Padded, RowP2NoName, RowNoEmail, RowNoPassword, RowNoId}

\* The sheets a load can read: up to MaxRows rows.
RECURSIVE SheetsOfLength(_)
SheetsOfLength(n) ==
    IF n = 0 THEN {<<>>}
    ELSE {Append(s, r) : s \in SheetsOfLength(n - 1), r \in RawRows}
Sheets == UNION {SheetsOfLength(n) : n \in 0..MaxRows}

\* if (pId && email && pass)
HasAllThree(row) == row.id # <<>> /\ row.email # <<>> /\ row.password # <<>>

\* The ProfileCredentials pushed for a row: every field trimmed.
ProfileOf(row) ==
    [profileId |-> Trim(row.id), profileName |-> Trim(row.name), email |-> Trim(row.email),
     password |-> Trim(row.password), twoFactorSecret |-> Trim(row.twofactorsecret)]

\* for (const row of rawData) { ... profiles.push(...) }
RECURSIVE ParseRows(_)
ParseRows(rawData) ==
    IF rawData = <<>> THEN <<>>
    ELSE IF HasAllThree(Head(rawData))
            THEN <<ProfileOf(Head(rawData))>> \o ParseRows(Tail(rawData))
            ELSE ParseRows(Tail(rawData))

\* A load that adds the parsed rows to the set it finds.
SessionAppended(old, profiles) == old \o profiles

\* sessionCredentials = profiles
SessionReplaced(old, profiles) == profiles

\* Array.prototype.find: the first element that satisfies the test, null when none does.
FirstIndex(set, Test(_)) ==
    IF \E k \in 1..Len(set) : Test(set[k])
       THEN CHOOSE k \in 1..Len(set) : Test(set[k]) /\ \A m \in 1..(k - 1) : ~Test(set[m])
       ELSE 0

\* getCredentialsByProfileId
GetCredentialsByProfileId(set, profileId) ==
    LET normalizedId == Trim(profileId)
        Test(p) == p.profileId = normalizedId
        k == FirstIndex(set, Test)
    IN IF k = 0 THEN NoProfile ELSE Found(set[k])

\* A name lookup that accepts a loaded name containing the argument.
GetCredentialsByProfileNamePartial(set, profileName) ==
    IF profileName = <<>> THEN NoProfile
    ELSE LET searchName == Trim(ToLowerCase(profileName))
             Test(p) == Includes(Trim(ToLowerCase(p.profileName)), searchName)
             k == FirstIndex(set, Test)
         IN IF k = 0 THEN NoProfile ELSE Found(set[k])

\* getCredentialsByProfileName
GetCredentialsByProfileName(set, profileName) ==
    IF profileName = <<>> THEN NoProfile
    ELSE LET searchName == Trim(ToLowerCase(profileName))
             Test(p) == Trim(ToLowerCase(p.profileName)) = searchName
             k == FirstIndex(set, Test)
         IN IF k = 0 THEN NoProfile ELSE Found(set[k])

\* ------------------------------------------------------ login-tiktok handler

\* return r (from the try block or from the handler's catch)
HandlerReturns(h, r) ==
    /\ handlerResult' = [handlerResult EXCEPT ![h] = r]
    /\ loginPc' = [loginPc EXCEPT ![h] = "returned"]

\* An exit that closes the profile it started: axios.post(.../profiles/stop/<id>).
ExitStopsProfile(h) == loginStops' = [loginStops EXCEPT ![h] = @ + 1]

\* The requests to /profiles/stop the handler issues on its way out: none; the
\* finally block holds releaseWindowPosition(windowIndex) and nothing else.
ExitStopRequests(h) == loginStops' = loginStops

\* What the handler returns for each way the awaited login can end: the login's
\* result, or the failure built by the handler's catch.
OutcomeResults(outcome) ==
    CASE outcome = "succeeded" -> {SuccessResult(MsgLoginSuccessful)}
      [] outcome = "failed" -> {FailedResult(<<MsgStillOnLogin>>)}
      [] outcome = "threw" -> {FailedResult(<<m>>) : m \in ExceptionMessages}

\* The arguments the handler is invoked with.
LoginIds == {<<"2">>, <<"3">>}
LoginNames == {<<>>, <<"a">>, <<"B">>}

\* The credential sets a load can have left behind when the handler is invoked.
LoginSets == {<<>>, ParseRows(<<RowP1, RowP2NoName>>), ParseRows(<<RowP2NoName, RowP1Padded>>)}

\* A lookup that asks for the ID first and for the name only when the ID is unknown.
LookupCredentialsIdFirst(set, profileId, profileName) ==
    LET byId == GetCredentialsByProfileId(set, profileId)
    IN IF byId.found THEN byId
       ELSE IF profileName # <<>> THEN GetCredentialsByProfileName(set, profileName)
       ELSE NoProfile

\* if (profileName) credentials = getCredentialsByProfileName(profileName);
\* if (!credentials) credentials = getCredentialsByProfileId(profileId);
LookupCredentials(set, profileId, profileName) ==
    LET byName == IF profileName # <<>>
                     THEN GetCredentialsByProfileName(set, profileName)
                     ELSE NoProfile
    IN IF byName.found THEN byName ELSE GetCredentialsByProfileId(set, profileId)

\* A handler that issues its start request before it looks at the credentials.
LoginCallStartsFirst(h) ==
    /\ loginPc[h] = "idle"
    /\ \E profileId \in LoginIds, profileName \in LoginNames :
           /\ loginArgs' = [loginArgs EXCEPT
                               ![h] = [profileId |-> profileId, profileName |-> profileName]]
           /\ credentials' = [credentials EXCEPT
                                 ![h] = LookupCredentials(sessionCredentials, profileId, profileName)]
    /\ loginPc' = [loginPc EXCEPT ![h] = "start"]
    /\ loginTrail' = [loginTrail EXCEPT ![h] = @ \cup {"start"}]
    /\ UNCHANGED <<batchVars, restVars, slotVars, sellerVars, loginVia, loginStops, handlerResult>>

\* The handler is invoked: credentials are looked up by name, then by ID; without
\* credentials it returns the failure, with them it issues the start request.
LoginCall(h) ==
    /\ loginPc[h] = "idle"
    /\ \E profileId \in LoginIds, profileName \in LoginNames :
           LET c == LookupCredentials(sessionCredentials, profileId, profileName)
           IN /\ loginArgs' = [loginArgs EXCEPT
                                  ![h] = [profileId |-> profileId, profileName |-> profileName]]
              /\ credentials' = [credentials EXCEPT ![h] = c]
              /\ IF c.found
                    THEN /\ loginPc' = [loginPc EXCEPT ![h] = "start"]
                         /\ loginTrail' = [loginTrail EXCEPT ![h] = @ \cup {"start"}]
                         /\ UNCHANGED handlerResult
                    ELSE /\ HandlerReturns(h, FailedResult(<<MsgMissingCredentials>>))
                         /\ UNCHANGED loginTrail
    /\ UNCHANGED <<batchVars, restVars, slotVars, sellerVars, loginVia, loginStops>>

\* start answers with a port
LoginStartOk(h) ==
    /\ loginPc[h] = "start"
    /\ loginVia' = [loginVia EXCEPT ![h] = "start"]
    /\ loginPc' = [loginPc EXCEPT ![h] = "sleep3"]
    /\ UNCHANGED <<loginArgs, credentials, loginTrail, batchVars, restVars, slotVars, sellerVars, loginStops, handlerResult>>

\* start answers 409: the status request is issued
LoginStartConflict(h) ==
    /\ loginPc[h] = "start"
    /\ loginPc' = [loginPc EXCEPT ![h] = "status"]
    /\ loginTrail' = [loginTrail EXCEPT ![h] = @ \cup {"status"}]
    /\ UNCHANGED <<loginArgs, credentials, batchVars, restVars, slotVars, sellerVars, loginVia, loginStops, handlerResult>>

\* start answers 400: return { success: false, message: 'Profile is in use ...' }
LoginStartDenied(h) ==
    /\ loginPc[h] = "start"
    /\ HandlerReturns(h, FailedResult(<<MsgInUseByAnother>>))
    /\ UNCHANGED <<loginArgs, credentials, loginTrail, batchVars, restVars, slotVars, sellerVars, loginVia, loginStops>>

\* start answers code # 1 or fails in another way: the error reaches the handler's catch
LoginStartError(h) ==
    /\ loginPc[h] = "start"
    /\ \E m \in {MsgFailedToStart, MsgRequestFailed} : HandlerReturns(h, FailedResult(<<m>>))
    /\ UNCHANGED <<loginArgs, credentials, loginTrail, batchVars, restVars, slotVars, sellerVars, loginVia, loginStops>>

\* status answers with a port
LoginStatusPort(h) ==
    /\ loginPc[h] = "status"
    /\ loginVia' = [loginVia EXCEPT ![h] = "status"]
    /\ loginPc' = [loginPc EXCEPT ![h] = "sleep3"]
    /\ UNCHANGED <<loginArgs, credentials, loginTrail, batchVars, restVars, slotVars, sellerVars, loginStops, handlerResult>>

\* status answers without a port, or fails: 'Profile conflict - could not get port'
\* reaches the handler's catch
LoginStatusFailed(h) ==
    /\ loginPc[h] = "status"
    /\ HandlerReturns(h, FailedResult(<<MsgLoginConflict>>))
    /\ UNCHANGED <<loginArgs, credentials, loginTrail, batchVars, restVars, slotVars, sellerVars, loginVia, loginStops>>

\* sleep(3000) is over: the slot is taken and loginTikTokSeller is called
LoginSlept(h) ==
    /\ loginPc[h] = "sleep3"
    /\ AcquireSlot(h)
    /\ loginPc' = [loginPc EXCEPT ![h] = "login"]
    /\ loginTrail' = [loginTrail EXCEPT ![h] = @ \cup {"slot", "login"}]
    /\ UNCHANGED <<loginArgs, credentials, batchVars, restVars, sellerVars, loginVia, loginStops, handlerResult>>

\* The awaited login ends: the finally block runs and the handler returns.
LoginEnds(h) ==
    /\ loginPc[h] = "login"
    /\ \E outcome \in LoginOutcomes :
           /\ LoginFinally(h, outcome)
           /\ \E r \in OutcomeResults(outcome) : HandlerReturns(h, r)
    /\ ExitStopRequests(h)
    /\ UNCHANGED <<loginArgs, credentials, loginTrail, batchVars, restVars, sellerVars, loginVia>>

NextLogin ==
    \/ \E h \in Logins : LoginCall(h)
    \/ \E h \in Logins : LoginStartOk(h)
    \/ \E h \in Logins : LoginStartConflict(h)
    \/ \E h \in Logins : LoginStartDenied(h)
    \/ \E h \in Logins : LoginStartError(h)
    \/ \E h \in Logins : LoginStatusPort(h)
    \/ \E h \in Logins : LoginStatusFailed(h)
    \/ \E h \in Logins : LoginSlept(h)
    \/ \E h \in Logins : LoginEnds(h)

\* Concurrent invocations of the handler, with the credential set an earlier load left:
\* no batch is running.
InitLoginAlone ==
    InitBatch /\ profileIds = <<>> /\ InitSlots /\ InitSeller /\ InitHandler
    /\ sessionCredentials \in LoginSets
    /\ prevCredentials = <<>>
    /\ lastSheet = <<>>
    /\ loadResult = [success |-> FALSE, count |-> 0, message |-> ""]
    /\ lastCall = "none"
    /\ InitFast
    /\ InitProgress

SpecLogin == InitLoginAlone /\ [][NextLogin]_vars

\* ------------------------------------------- credentials-reader: loads and stubs

MsgExcelEmpty == "Excel file is empty"
MsgNoValidProfiles == "No valid profiles found (Check headers: profileId, email, password)"
MsgLoaded == "Loaded profiles from Excel"
MsgExcelError == "Excel Error"

\* loadCredentialsFromExcel / loadCredentialsFromExcelBuffer with a workbook that was
\* read: parseExcelWorkbook.
LoadCredentials ==
    \E rawData \in Sheets :
        LET profiles == ParseRows(rawData)
        IN /\ lastCall' = "load"
           /\ lastSheet' = rawData
           /\ prevCredentials' = sessionCredentials
           /\ IF rawData = <<>>
                 THEN /\ loadResult' = [success |-> FALSE, count |-> 0, message |-> MsgExcelEmpty]
                      /\ UNCHANGED sessionCredentials
                 ELSE IF Len(profiles) > 0
                         THEN /\ sessionCredentials' = SessionReplaced(sessionCredentials, profiles)
                              /\ loadResult' = [success |-> TRUE, count |-> Len(profiles),
                                                message |-> MsgLoaded]
                         ELSE /\ loadResult' = [success |-> FALSE, count |-> 0,
                                                message |-> MsgNoValidProfiles]
                              /\ UNCHANGED sessionCredentials
           /\ UNCHANGED <<batchVars, slotVars, sellerVars, handlerVars, fastVars, progressVars>>

\* XLSX.readFile / XLSX.read throws: the catch returns the Excel Error result.
LoadUnreadable ==
    /\ lastCall' = "unreadable"
    /\ lastSheet' = <<>>
    /\ prevCredentials' = sessionCredentials
    /\ loadResult' = [success |-> FALSE, count |-> 0, message |-> MsgExcelError]
    /\ UNCHANGED <<batchVars, slotVars, sellerVars, handlerVars, fastVars, progressVars, sessionCredentials>>

\* saveCredentials: warns and returns false
SaveCredentials ==
    /\ lastCall' = "save"
    /\ prevCredentials' = sessionCredentials
    /\ UNCHANGED <<batchVars, slotVars, sellerVars, handlerVars, fastVars, progressVars, sessionCredentials, lastSheet,
                   loadResult>>

\* A deleteCredentials that removes the set's first row.
DeleteCredentialsRemoves ==
    /\ lastCall' = "delete"
    /\ prevCredentials' = sessionCredentials
    /\ sessionCredentials' = IF sessionCredentials = <<>> THEN <<>> ELSE Tail(sessionCredentials)
    /\ UNCHANGED <<batchVars, slotVars, sellerVars, handlerVars, fastVars, progressVars, lastSheet,
                   loadResult>>

\* deleteCredentials: warns and returns false
DeleteCredentials ==
    /\ lastCall' = "delete"
    /\ prevCredentials' = sessionCredentials
    /\ UNCHANGED <<batchVars, slotVars, sellerVars, handlerVars, fastVars, progressVars, sessionCredentials, lastSheet,
                   loadResult>>

NextCreds ==
    \/ LoadCredentials
    \/ LoadUnreadable
    \/ SaveCredentials
    \/ DeleteCredentials

\* The credential store alone: nothing else is running.
InitCredsAlone ==
    InitBatch /\ profileIds = <<>> /\ InitSlots /\ InitSeller /\ InitHandler /\ InitCreds
    /\ InitFast
    /\ InitProgress

SpecCreds == InitCredsAlone /\ [][NextCreds]_vars

\* ------------------------------------------------------- fetchTikTokDataFast

\* The two query parameters a URL of the seller center can carry, and the values
\* they have in the session of one seller.
Params == {"seller_id", "oec_seller_id"}
SellerIdValue == "7001"
OecSellerIdValue == "7002"

\* A live session: the parameters on the URLs of the responses of
\* seller-us.tiktok.com, the parameters of the page's own location, and whether the
\* page embeds a blob (atlas-data or __NEXT_DATA__) with a seller_id.
UrlParams == {{}, {"seller_id"}, Params}
Sessions == [responses : UrlParams, location : UrlParams, blob : BOOLEAN]

\* now.getMonth(): January and December
MonthIndexes == {0, 11}

\* url.includes('seller_id='): the text oec_seller_id= contains it as well
IncludesSellerIdParam(params) == params # {}

\* extractSellerIdFromUrl content with seller_id alone.
ExtractSellerIdAlone(params) ==
    IF "seller_id" \in params
       THEN [sellerId |-> SellerIdValue,
             oecSellerId |-> IF "oec_seller_id" \in params THEN OecSellerIdValue ELSE ""]
       ELSE NoInfo

\* extractSellerIdFromUrl: both parameters or null
ExtractSellerIdFromUrl(params) ==
    IF "seller_id" \in params /\ "oec_seller_id" \in params
       THEN [sellerId |-> SellerIdValue, oecSellerId |-> OecSellerIdValue]
       ELSE NoInfo

\* sellerInfo = { sellerId: pageData.id, oecSellerId: pageData.id }
PageDataInfo == [sellerId |-> SellerIdValue, oecSellerId |-> SellerIdValue]

SrcNetwork == "Network Request"
SrcUrl == "Current URL"
SrcPage == "Page Content"

\* The errors an awaited step of the try block can reject with.
StepErrors == {ErrProxy, ErrTimedOut, ErrRefused, ErrDns, ErrOther}

FastFault == fastFaults < MaxFaults /\ fastFaults' = fastFaults + 1

fastInputs == <<session, currentMonth>>
fastApi == <<apiLog, onHoldAmount, sumAmount, monthlyData, fastOutcome, failedRequests>>
fastFound == <<sellerInfo, foundSource, firstInfo>>
fastCleanup == <<closeAttempts, disconnectAttempts, caught>>
otherVars == <<batchVars, slotVars, sellerVars, handlerVars, credVars, progressVars>>

\* An assignment to sellerInfo and foundSource.
SetSellerInfo(info, src) ==
    /\ sellerInfo' = info
    /\ foundSource' = src
    /\ firstInfo' = IF firstInfo = NoInfo THEN info ELSE firstInfo

\* sellerInfo, foundSource and deadline are locals of the try block: they end with it.
EndOfTry ==
    /\ sellerInfo' = NoInfo
    /\ foundSource' = ""
    /\ polls' = 0

\* The catch of the browser phase: classify the message, then close the page and
\* disconnect the browser if they exist, ignoring what that throws. closing is 1
\* when the error was thrown by page.close() itself.
FastCatch(m, closing) ==
    /\ caught' = m
    /\ harvest' = [harvest EXCEPT !.lastNetworkError = ClassifyNetworkError(m)]
    /\ closeAttempts' = closeAttempts + closing + (IF fastPage THEN 1 ELSE 0)
    /\ disconnectAttempts' = disconnectAttempts + (IF fastBrowser THEN 1 ELSE 0)
    /\ fpc' = "stop"
    /\ EndOfTry

\* The loop ends with sellerInfo = info found by src: throw the Timeout error, or copy
\* the identity to the outer variables and ask for the cookies.
AfterLoop(info, src) ==
    IF info = NoInfo
       THEN FastCatch(MsgTimeout, 0) /\ UNCHANGED firstInfo
       ELSE /\ SetSellerInfo(info, src)
            /\ harvest' = [harvest EXCEPT !.sellerId = info.sellerId,
                                          !.oecSellerId = info.oecSellerId]
            /\ fpc' = "cookies"
            /\ UNCHANGED <<fastCleanup, polls>>

FastCall ==
    /\ fpc = "idle"
    /\ session' \in Sessions
    /\ currentMonth' \in MonthIndexes
    /\ polls' = MaxPolls
    /\ fpc' = "connect"
    /\ UNCHANGED <<otherVars, fastBrowser, fastPage, fastFound, harvest, fastCleanup, fastStops,
                   fastApi, fastFaults>>

\* puppeteer.connect
FastConnect ==
    /\ fpc = "connect"
    /\ fastBrowser' = TRUE
    /\ fpc' = "newPage"
    /\ UNCHANGED <<otherVars, fastInputs, fastPage, fastFound, polls, harvest, fastCleanup,
                   fastStops, fastApi, fastFaults>>

\* browser.newPage, and the response listener is registered
FastNewPage ==
    /\ fpc = "newPage"
    /\ fastPage' = TRUE
    /\ fpc' = "goto"
    /\ UNCHANGED <<otherVars, fastInputs, fastBrowser, fastFound, polls, harvest, fastCleanup,
                   fastStops, fastApi, fastFaults>>

\* page.goto returns
FastGoto ==
    /\ fpc = "goto"
    /\ fpc' = "settle"
    /\ UNCHANGED <<otherVars, fastInputs, fastBrowser, fastPage, fastFound, polls, harvest,
                   fastCleanup, fastStops, fastApi, fastFaults>>

\* the 2 s after goto are over
FastSettled ==
    /\ fpc = "settle"
    /\ fpc' = "loopTop"
    /\ UNCHANGED <<otherVars, fastInputs, fastBrowser, fastPage, fastFound, polls, harvest,
                   fastCleanup, fastStops, fastApi, fastFaults>>

\* The positions at which the call awaits while the listener can still find
\* something.
ListenPositions == {"goto", "settle", "evaluate", "sleep"}

\* The response listener runs for a response of the seller center.
ResponseEvent ==
    /\ fpc \in ListenPositions
    /\ sellerInfo = NoInfo
    /\ IncludesSellerIdParam(session.responses)
    /\ ExtractSellerIdFromUrl(session.responses) # NoInfo
    /\ SetSellerInfo(ExtractSellerIdFromUrl(session.responses), SrcNetwork)
    /\ UNCHANGED <<otherVars, fastInputs, fpc, fastBrowser, fastPage, polls, harvest, fastCleanup,
                   fastStops, fastApi, fastFaults>>

\* The loop's condition and, inside, the check of the current URL up to the call of
\* page.evaluate.
PollUrl ==
    /\ fpc = "loopTop"
    /\ IF sellerInfo # NoInfo \/ polls = 0
          THEN AfterLoop(sellerInfo, foundSource)
          ELSE LET extracted == IF IncludesSellerIdParam(session.location)
                                   THEN ExtractSellerIdFromUrl(session.location)
                                   ELSE NoInfo
               IN IF extracted # NoInfo
                     THEN AfterLoop(extracted, SrcUrl)
                     ELSE /\ fpc' = "evaluate"
                          /\ UNCHANGED <<fastFound, polls, harvest, fastCleanup>>
    /\ UNCHANGED <<otherVars, fastInputs, fastBrowser, fastPage, fastStops, fastApi, fastFaults>>

\* page.isClosed() answers true: break
PageIsClosed ==
    /\ fpc = "loopTop"
    /\ sellerInfo = NoInfo
    /\ polls > 0
    /\ FastFault
    /\ AfterLoop(sellerInfo, foundSource)
    /\ UNCHANGED <<otherVars, fastInputs, fastBrowser, fastPage, fastStops, fastApi>>

\* page.evaluate returns
EvaluateReturns ==
    /\ fpc = "evaluate"
    /\ IF session.blob
          THEN AfterLoop(PageDataInfo, SrcPage)
          ELSE /\ fpc' = "sleep"
               /\ UNCHANGED <<fastFound, polls, harvest, fastCleanup>>
    /\ UNCHANGED <<otherVars, fastInputs, fastBrowser, fastPage, fastStops, fastApi, fastFaults>>

\* page.evaluate rejects because the context was destroyed: the loop's catch
\* ignores it
EvaluateThrows ==
    /\ fpc = "evaluate"
    /\ FastFault
    /\ fpc' = "sleep"
    /\ UNCHANGED <<otherVars, fastInputs, fastBrowser, fastPage, fastFound, polls, harvest,
                   fastCleanup, fastStops, fastApi>>

\* the 1 s before the next pass are over
PollSlept ==
    /\ fpc = "sleep"
    /\ polls' = polls - 1
    /\ fpc' = "loopTop"
    /\ UNCHANGED <<otherVars, fastInputs, fastBrowser, fastPage, fastFound, harvest, fastCleanup,
                   fastStops, fastApi, fastFaults>>

\* page.cookies returns the cookies of the seller center, which can be none
CookiesReturn ==
    /\ fpc = "cookies"
    /\ \E n \in {0, 1} :
        /\ IF n = 0 THEN FastFault ELSE UNCHANGED fastFaults
        /\ harvest' = [harvest EXCEPT !.cookies = n]
    /\ fpc' = "close"
    /\ UNCHANGED <<otherVars, fastInputs, fastBrowser, fastPage, fastFound, polls, fastCleanup,
                   fastStops, fastApi>>

\* page.close returns
FastClose ==
    /\ fpc = "close"
    /\ closeAttempts' = closeAttempts + 1
    /\ fpc' = "disconnect"
    /\ UNCHANGED <<otherVars, fastInputs, fastBrowser, fastPage, fastFound, polls, harvest,
                   disconnectAttempts, caught, fastStops, fastApi, fastFaults>>

\* browser.disconnect returns
FastDisconnect ==
    /\ fpc = "disconnect"
    /\ disconnectAttempts' = disconnectAttempts + 1
    /\ fpc' = "stop"
    /\ EndOfTry
    /\ UNCHANGED <<otherVars, fastInputs, fastBrowser, fastPage, firstInfo, harvest,
                   closeAttempts, caught, fastStops, fastApi, fastFaults>>

\* The awaited steps of the try block outside the loop's own try.
ThrowingPositions == {"connect", "newPage", "goto", "cookies", "close"}

\* One of them rejects: the catch of the browser phase
BrowserStepThrows ==
    /\ fpc \in ThrowingPositions
    /\ FastFault
    /\ \E m \in StepErrors : FastCatch(m, IF fpc = "close" THEN 1 ELSE 0)
    /\ UNCHANGED <<otherVars, fastInputs, fastBrowser, fastPage, firstInfo, fastStops, fastApi>>

\* The requests of the direct phase.
Request(api, year, month) == [api |-> api, year |-> year, month |-> month]
StatRequest == Request("stat", 0, 0)
PaymentRequest == Request("payment", 0, 0)

\* now.getFullYear() and prevYear
CurrentYear == 2026
PrevYear == CurrentYear - 1

NotAvailable == "N/A"
NoSettlement == "$0"
ErrorMarker == "Error"
Figure == "$100"

\* value || fallback
OrElse(value, fallback) == IF value = "" THEN fallback ELSE value

\* What an answer's body can hold where a figure is expected.
Bodies == {Figure, ""}

\* The second loop runs for month = 0 .. currentMonth.
MonthsThisYearExclusive(cm) == cm
MonthsThisYear(cm) == cm + 1
TotalMonths(cm) == MonthsOfYear + MonthsThisYear(cm)

\* The year and month of the k-th call of fetchMonth, k = 1, 2, ...
MonthSlot(k) ==
    IF k <= MonthsOfYear
       THEN [year |-> PrevYear, month |-> k - 1]
       ELSE [year |-> CurrentYear, month |-> k - 1 - MonthsOfYear]
MonthRequest(k) == Request("month", MonthSlot(k).year, MonthSlot(k).month)

\* The call throws.
FastThrows(m) ==
    /\ fastOutcome' = [returned |-> FALSE, error |-> m]
    /\ fpc' = "done"

\* axios.post(stop)
StopNotIssued(n) == n
StopIssued(n) == n + 1

\* The stop request and, when it has returned or failed, the check of what was
\* captured: throw, or issue the on-hold statistic request.
FastStop ==
    /\ fpc = "stop"
    /\ fastStops' = StopIssued(fastStops)
    /\ IF harvest.sellerId = "" \/ harvest.cookies = 0
          THEN /\ FastThrows(ExtractionFailureMessage(harvest.lastNetworkError))
               /\ UNCHANGED apiLog
          ELSE /\ apiLog' = Append(apiLog, StatRequest)
               /\ fpc' = "stat"
               /\ UNCHANGED fastOutcome
    /\ UNCHANGED <<otherVars, fastInputs, fastBrowser, fastPage, fastFound, polls, harvest,
                   fastCleanup, onHoldAmount, sumAmount, monthlyData, fastFaults, failedRequests>>

\* The on-hold statistic is answered: the payment request is issued.
StatOk ==
    /\ fpc = "stat"
    /\ \E body \in Bodies :
        /\ IF body = "" THEN FastFault ELSE UNCHANGED fastFaults
        /\ onHoldAmount' = OrElse(body, NotAvailable)
    /\ sumAmount' = NotAvailable
    /\ apiLog' = Append(apiLog, PaymentRequest)
    /\ fpc' = "payment"
    /\ UNCHANGED <<otherVars, fastInputs, fastBrowser, fastPage, fastFound, polls, harvest,
                   fastCleanup, fastStops, monthlyData, fastOutcome, failedRequests>>

\* The on-hold statistic request fails and is guarded like the payment request.
StatFailsGuarded ==
    /\ fpc = "stat"
    /\ FastFault
    /\ failedRequests' = failedRequests \cup {StatRequest}
    /\ onHoldAmount' = NotAvailable
    /\ sumAmount' = NotAvailable
    /\ apiLog' = Append(apiLog, PaymentRequest)
    /\ fpc' = "payment"
    /\ UNCHANGED <<otherVars, fastInputs, fastBrowser, fastPage, fastFound, polls, harvest,
                   fastCleanup, fastStops, monthlyData, fastOutcome>>

\* The on-hold statistic request fails: nothing guards it, the call throws.
StatFails ==
    /\ fpc = "stat"
    /\ FastFault
    /\ failedRequests' = failedRequests \cup {StatRequest}
    /\ FastThrows(MsgRequestFailed)
    /\ UNCHANGED <<otherVars, fastInputs, fastBrowser, fastPage, fastFound, polls, harvest,
                   fastCleanup, fastStops, apiLog, onHoldAmount, sumAmount, monthlyData>>

\* The payment summary is answered: the request of January of the previous year is
\* issued.
PaymentOk ==
    /\ fpc = "payment"
    /\ \E body \in Bodies :
        /\ IF body = "" THEN FastFault ELSE UNCHANGED fastFaults
        /\ sumAmount' = OrElse(body, NotAvailable)
    /\ apiLog' = Append(apiLog, MonthRequest(1))
    /\ fpc' = "month"
    /\ UNCHANGED <<otherVars, fastInputs, fastBrowser, fastPage, fastFound, polls, harvest,
                   fastCleanup, fastStops, onHoldAmount, monthlyData, fastOutcome,
                   failedRequests>>

\* The payment summary request fails and nothing guards it.
PaymentFailsFatal ==
    /\ fpc = "payment"
    /\ FastFault
    /\ failedRequests' = failedRequests \cup {PaymentRequest}
    /\ FastThrows(MsgRequestFailed)
    /\ UNCHANGED <<otherVars, fastInputs, fastBrowser, fastPage, fastFound, polls, harvest,
                   fastCleanup, fastStops, apiLog, onHoldAmount, sumAmount, monthlyData>>

\* The payment summary request fails: the catch logs it and sumAmount stays 'N/A'.
PaymentFails ==
    /\ fpc = "payment"
    /\ FastFault
    /\ failedRequests' = failedRequests \cup {PaymentRequest}
    /\ apiLog' = Append(apiLog, MonthRequest(1))
    /\ fpc' = "month"
    /\ UNCHANGED <<otherVars, fastInputs, fastBrowser, fastPage, fastFound, polls, harvest,
                   fastCleanup, fastStops, onHoldAmount, sumAmount, monthlyData, fastOutcome>>

\* monthlyData.push(data), then the next pass of the loops: one more request, or
\* the return.
PushMonth(settlement) ==
    LET k == Len(monthlyData) + 1
    IN /\ monthlyData' = Append(monthlyData, [year |-> MonthSlot(k).year,
                                              month |-> MonthSlot(k).month,
                                              settlement |-> settlement])
       /\ IF k < TotalMonths(currentMonth)
             THEN /\ apiLog' = Append(apiLog, MonthRequest(k + 1))
                  /\ fpc' = "month"
                  /\ UNCHANGED fastOutcome
             ELSE /\ fastOutcome' = [returned |-> TRUE, error |-> ""]
                  /\ fpc' = "done"
                  /\ UNCHANGED apiLog

\* fetchMonth's request is answered with a settlement figure
MonthOk ==
    /\ fpc = "month"
    /\ PushMonth(OrElse(Figure, NoSettlement))
    /\ UNCHANGED <<otherVars, fastInputs, fastBrowser, fastPage, fastFound, polls, harvest,
                   fastCleanup, fastStops, onHoldAmount, sumAmount, fastFaults, failedRequests>>

\* fetchMonth's request fails and fetchMonth lets the error through.
MonthFailsAborts ==
    /\ fpc = "month"
    /\ FastFault
    /\ failedRequests' = failedRequests \cup {MonthRequest(Len(monthlyData) + 1)}
    /\ FastThrows(MsgRequestFailed)
    /\ UNCHANGED <<otherVars, fastInputs, fastBrowser, fastPage, fastFound, polls, harvest,
                   fastCleanup, fastStops, apiLog, onHoldAmount, sumAmount, monthlyData>>

\* fetchMonth's request fails: its catch returns the entry marked 'Error'
MonthFails ==
    /\ fpc = "month"
    /\ FastFault
    /\ failedRequests' = failedRequests \cup {MonthRequest(Len(monthlyData) + 1)}
    /\ PushMonth(ErrorMarker)
    /\ UNCHANGED <<otherVars, fastInputs, fastBrowser, fastPage, fastFound, polls, harvest,
                   fastCleanup, fastStops, onHoldAmount, sumAmount>>

NextFast ==
    \/ FastCall
    \/ FastConnect
    \/ FastNewPage
    \/ FastGoto
    \/ FastSettled
    \/ ResponseEvent
    \/ PollUrl
    \/ PageIsClosed
    \/ EvaluateReturns
    \/ EvaluateThrows
    \/ PollSlept
    \/ CookiesReturn
    \/ FastClose
    \/ FastDisconnect
    \/ BrowserStepThrows
    \/ FastStop
    \/ StatOk
    \/ StatFails
    \/ PaymentOk
    \/ PaymentFails
    \/ MonthOk
    \/ MonthFails

\* One call of fetchTikTokDataFast: nothing else is running.
InitFastAlone ==
    InitBatch /\ profileIds = <<>> /\ InitSlots /\ InitSeller /\ InitHandler /\ InitCreds
    /\ InitFast
    /\ InitProgress

SpecFast == InitFastAlone /\ [][NextFast]_vars

\* ================================================================== claims

\* The jobs that have obtained a port in their current attempt and have not
\* finished that attempt.
HoldingPort(j) == via[j] # "none" /\ pc[j] \in {"browser", "stop", "api", "catchStop"}

\* The attempt of job j has ended: its record is final, or it waits for its retry.
AttemptEnded(j) == pc[j] \in {"done", "backoff"}

\* The chunk (0-based) a job belongs to.
ChunkIndex(j) == (j - 1) \div CHUNK_SIZE

\* C1: at every instant at most CHUNK_SIZE jobs hold a profile port (start succeeded
\* or status fallback) in an attempt that has not finished, retries included.
C1_AtMostChunkSizeHolding ==
    Cardinality({j \in Jobs : HoldingPort(j)}) <= CHUNK_SIZE

\* C1 witness: a batch of more than CHUNK_SIZE profiles in which CHUNK_SIZE jobs
\* hold a port at once, one of them in its retry.
C1_Witness ==
    /\ N > CHUNK_SIZE
    /\ Cardinality({j \in Jobs : HoldingPort(j)}) = CHUNK_SIZE
    /\ \E j \in Jobs : HoldingPort(j) /\ retryCount[j] = 1

\* C2: every attempt that obtained a port has issued a stop request for the profile
\* by the time it ends, on success and on every failure.
C2_StopIssuedBeforeAttemptEnds ==
    \A j \in Jobs : (AttemptEnded(j) /\ via[j] # "none") => stopCnt[j] >= 1

\* C2 witness: an attempt that got its port from start and succeeded, and an attempt
\* that got its port from the status fallback and failed, have both ended.
C2_Witness ==
    \E j, k \in Jobs :
        /\ pc[j] = "done" /\ rec[j].success /\ via[j] = "start" /\ stopCnt[j] = 1
        /\ pc[k] = "backoff" /\ via[k] = "status" /\ stopCnt[k] >= 1

\* C3: once a start request of a job was answered 400, the job's record is the
\* skipped / in use failure and no further start request is issued for the profile.
C3_DeniedNeverRetried ==
    [][\A j \in Jobs :
          /\ denied'[j] => /\ pc'[j] = "done"
                           /\ rec'[j] = FailureRecord(j, MsgSkipped)
          /\ denied[j] => attempts'[j] = attempts[j]]_vars

\* C3 witness: the batch has returned and holds the record of a profile whose start
\* was answered 400.
C3_Witness ==
    /\ mainPc = "returned"
    /\ \E j \in Jobs : denied[j] /\ results[j].message = MsgSkipped /\ ~results[j].success

\* C4: no job makes more than MAX_RETRIES + 1 attempts, and a failure other than the
\* 400 denial is final only after MAX_RETRIES + 1 attempts.
C4_TransientRetriedOnce ==
    \A j \in Jobs :
        /\ attempts[j] <= MAX_RETRIES + 1
        /\ (pc[j] = "done" /\ ~rec[j].success /\ ~denied[j]) => attempts[j] = MAX_RETRIES + 1

\* C4 witness: a job whose two attempts failed for a transient reason has its final
\* failure record.
C4_Witness ==
    \E j \in Jobs : pc[j] = "done" /\ ~rec[j].success /\ ~denied[j] /\ attempts[j] = 2

\* C5: the results list holds the records of the input profile IDs in input order;
\* when the handler returns there is exactly one per input ID.
C5_ResultsInInputOrder ==
    /\ Len(results) <= N
    /\ \A k \in 1..Len(results) : results[k].profileId = profileIds[k]
    /\ mainPc = "returned" => Len(results) = N

\* C5 witness: a returned batch of two chunks in which the first job failed after
\* its retry while the second job of the same chunk succeeded at once.
C5_Witness ==
    /\ mainPc = "returned"
    /\ N > CHUNK_SIZE
    /\ retryCount[1] = 1 /\ ~results[1].success
    /\ retryCount[2] = 0 /\ results[2].success

\* C6: a job has issued a start request only if every job of every earlier chunk
\* has its final record.
C6_ChunkBarrier ==
    \A j, k \in Jobs :
        (attempts[j] >= 1 /\ ChunkIndex(k) < ChunkIndex(j))
            => (pc[k] = "done" /\ rec[k].profileId = profileIds[k])

\* C6 witness: a job of the second chunk has issued its start request after a job of
\* the first chunk went through a retry.
C6_Witness ==
    \E j, k \in Jobs :
        ChunkIndex(k) < ChunkIndex(j) /\ attempts[j] >= 1 /\ retryCount[k] = 1

\* C7: when a job has failed, the batch still goes on (some step is possible until
\* the handler returns) and at the return every job was run and has its own record.
C7_FailureDoesNotStopOthers ==
    (\E j \in Jobs : pc[j] \in {"catchStop", "backoff", "rejected"}
                     \/ (pc[j] = "done" /\ ~rec[j].success))
        => /\ mainPc # "returned" => ENABLED NextBatch
           /\ mainPc = "returned" =>
                 \A k \in Jobs : /\ attempts[k] >= 1
                                 /\ pc[k] = "done"
                                 /\ results[k] = rec[k]
                                 /\ rec[k].profileId = profileIds[k]

\* C7 witness: the first job failed on both attempts, and the other jobs of its
\* chunk and the job of the next chunk succeeded.
C7_Witness ==
    /\ mainPc = "returned"
    /\ N > CHUNK_SIZE
    /\ ~results[1].success /\ attempts[1] = 2
    /\ \A k \in Jobs : k # 1 => results[k].success

\* C8: a status answer with a port takes the job to the extraction in the same
\* attempt (no retry consumed, no new start request), and the conflict message is
\* not what such an attempt fails or ends with.
C8_ConflictFallbackProceeds ==
    [][\A j \in Jobs :
          /\ (pc[j] = "status" /\ via'[j] = "status")
                => /\ pc'[j] = "browser"
                   /\ retryCount'[j] = retryCount[j]
                   /\ attempts'[j] = attempts[j]
          /\ (via'[j] = "status" /\ pc'[j] = "catchStop") => err'[j] # MsgConflict
          /\ (via'[j] = "status" /\ pc'[j] = "done") => rec'[j].message # MsgConflict]_vars

\* C8 witness: a job whose start was answered 409 got its port from status and
\* succeeded in its first attempt.
C8_Witness ==
    \E j \in Jobs :
        via[j] = "status" /\ pc[j] = "done" /\ rec[j].success /\ attempts[j] = 1

\* A message that reports a timeout.
IsTimeoutMessage(m) == m \in {MsgTimeout, MsgNetTimeout}

\* C9: a job whose extraction ran into the deadline on every attempt ends with
\* success = false, a message that reports a timeout, and a stop request issued.
C9_TimeoutReported ==
    \A j \in Jobs :
        (pc[j] = "done" /\ attempts[j] >= 1 /\ timeouts[j] = attempts[j])
            => /\ ~rec[j].success
               /\ IsTimeoutMessage(rec[j].message)
               /\ stopCnt[j] >= 1

\* C10: as long as no more than MAX_WINDOWS acquisitions were ever held at once, no
\* two held acquisitions have the same slot.
C10_SlotsDistinct ==
    ~overflowed =>
        \A g, h \in Holders : g # h => windowIndex[g] # windowIndex[h]

\* C10 witness: never more than MAX_WINDOWS acquisitions were held, all slots were
\* taken and slot 0 has been released since: the slots 1 .. MAX_WINDOWS - 1 are held.
C10_Witness ==
    /\ ~overflowed
    /\ Cardinality(Holders) = MAX_WINDOWS - 1
    /\ usedWindowPositions = 1..(MAX_WINDOWS - 1)
    /\ {windowIndex[h] : h \in Holders} = usedWindowPositions

\* The slots of the grid.
Slots == 0..(MAX_WINDOWS - 1)

\* No two invocations that hold a slot hold the same one.
PairwiseDistinct == \A g, h \in Holders : g # h => windowIndex[g] # windowIndex[h]

\* C11 as stated: at every instant at which at most MAX_WINDOWS invocations hold a
\* slot, the slots they hold are pairwise distinct, whatever happened before.
C11_DistinctWheneverAtMostMax ==
    Cardinality(Holders) <= MAX_WINDOWS => PairwiseDistinct

\* C11 amended: the slots held are pairwise distinct at every instant at which no
\* wrap-around has happened since the last instant at which no invocation held a
\* slot; a wrap-around further back than that does no harm.
C11_DistinctSinceIdle == ~wrapped => PairwiseDistinct

\* C11 witness: a wrap-around happened, every invocation returned, and MAX_WINDOWS
\* invocations hold slots again.
C11_Witness ==
    /\ overflowed
    /\ ~wrapped
    /\ Cardinality(Holders) = MAX_WINDOWS

\* C12 as stated: at most MAX_WINDOWS invocations are inside the login automaton at
\* any instant.
C12_AtMostMaxInside == Cardinality({h \in Invocations : inLogin[h]}) <= MAX_WINDOWS

\* C12 amended: what MAX_WINDOWS bounds is the slots, not the invocations: every
\* held slot and every member of the used set lies in [0, MAX_WINDOWS), and an
\* invocation that asks for a slot gets one at once, however many are inside.
C12_SlotsBoundedNeverBlocks ==
    /\ usedWindowPositions \subseteq Slots
    /\ \A h \in Invocations : inLogin[h] => windowIndex[h] \in Slots
    /\ \A h \in Invocations :
           (windowIndex[h] = NoSlot /\ ~inLogin[h]) => ENABLED LoginAcquire(h)

\* C12 witness: more than MAX_WINDOWS invocations are inside the login automaton.
C12_Witness == Cardinality({h \in Invocations : inLogin[h]}) > MAX_WINDOWS

\* C13: an invocation that has returned holds no slot, however its login ended, and
\* when no invocation is between acquisition and return the used set is empty.
C13_ReleasedBeforeReturn ==
    /\ \A h \in Invocations : ~inLogin[h] => windowIndex[h] = NoSlot
    /\ (\A h \in Invocations : ~inLogin[h]) => usedWindowPositions = {}

\* C13 witness: slot 0 was shared by two invocations, and every invocation has
\* returned.
C13_Witness ==
    /\ overflowed
    /\ \A h \in Invocations : ~inLogin[h]
    /\ usedWindowPositions = {}

\* C14: a step in which an invocation obtains a slot gives it the lowest integer of
\* [0, MAX_WINDOWS) outside the used set and adds that integer to the set; when
\* every integer of the range is in the set it gives 0 and leaves the set as it was.
C14_LowestUnusedOrZero ==
    [][\A h \in Invocations :
          (windowIndex[h] = NoSlot /\ windowIndex'[h] # NoSlot) =>
              IF Slots \subseteq usedWindowPositions
                 THEN /\ windowIndex'[h] = 0
                      /\ usedWindowPositions' = usedWindowPositions
                 ELSE /\ windowIndex'[h] \in Slots \ usedWindowPositions
                      /\ \A t \in Slots : t < windowIndex'[h] => t \in usedWindowPositions
                      /\ usedWindowPositions' = usedWindowPositions \cup {windowIndex'[h]}]_vars

\* C14 witness: the set holds every slot and two invocations hold slot 0, the
\* second by wrap-around.
C14_Witness ==
    /\ Slots \subseteq usedWindowPositions
    /\ \E g, h \in Holders : g # h /\ windowIndex[g] = 0 /\ windowIndex[h] = 0

\* C15: a step in which an invocation releases slot s leaves a set that a second
\* release of s would not change, and leaves the set as it was when s was not in it.
C15_ReleaseIdempotent ==
    [][\A h \in Invocations :
          (windowIndex[h] # NoSlot /\ windowIndex'[h] = NoSlot) =>
              /\ UsedAfterRelease(usedWindowPositions', windowIndex[h]) = usedWindowPositions'
              /\ windowIndex[h] \notin usedWindowPositions =>
                     usedWindowPositions' = usedWindowPositions]_vars

\* C15 witness: an invocation still holds a slot that another invocation's release
\* has already taken out of the set; its own release finds the slot absent.
C15_Witness == \E h \in Holders : windowIndex[h] \notin usedWindowPositions

\* The last part of a result's message, "" for an empty message.
MessageTail(r) == IF r.message = <<>> THEN "" ELSE r.message[Len(r.message)]

\* C16: when the call has returned after the two-factor input appeared, and no
\* secret was configured or the TOTP service gave no code, the result is the
\* manual-entry result (success, requires2FA) and no code was typed into the page.
C16_ManualEntryWithoutCode ==
    (spc = "returned" /\ twoFAInput /\ (~secret \/ code = NoCode)) =>
        /\ loginResult.success
        /\ loginResult.requires2FA
        /\ loginResult.message = <<MsgManual2FA>>
        /\ ~typedCode

\* C16 witness: a secret was configured, the two-factor input appeared, the TOTP
\* service gave no code and the call has returned.
C16_Witness ==
    /\ spc = "returned"
    /\ twoFAInput
    /\ secret
    /\ code = NoCode

\* C17 as stated: a call that returns after connecting has disconnected, and
\* whenever any step threw an exception the result is a failure carrying an
\* exception's message.
C17_AnyExceptionFails ==
    /\ spc \in {"returned", "rejected"} /\ browser => disconnects >= 1
    /\ raised # {} =>
           (spc = "returned" => ~loginResult.success /\ MessageTail(loginResult) \in raised)

\* C17 amended: a call that ends after connecting has disconnected; an exception
\* that reaches the catch of the code entry or the catch of the whole flow, which
\* is every exception but those of the form wait, the button loop, the two-factor
\* wait and the redirect wait, ends the call with the result success=false whose
\* message ends with the exception's message; the call never rejects.
C17_DisconnectAndFailureResult ==
    /\ spc \in {"returned", "rejected"} /\ browser => disconnects >= 1
    /\ escaped # NoException =>
           /\ spc = "returned"
           /\ ~loginResult.success
           /\ MessageTail(loginResult) = escaped
    /\ spc # "rejected"

\* C17 witness: after the connection was made a step threw, the call returned the
\* failure and disconnected.
C17_Witness ==
    /\ spc = "returned"
    /\ browser
    /\ escaped \in ExceptionMessages
    /\ disconnects = 1

\* A record as the handler returns it: it names its profile, it has a message, and
\* it is a success exactly when the message is the success message.
WellFormedRecord(r, id) ==
    /\ r.profileId = id
    /\ r.message # ""
    /\ r.success <=> r.message = MsgSuccess

\* C18: whatever the start, status, stop, extraction and API calls answer, no job's
\* promise rejects, the handler has a step to take until it returns, and it
\* returns one well-formed success-or-failure record per input profile.
C18_NeverRejects ==
    /\ \A j \in Jobs : pc[j] # "rejected"
    /\ mainPc # "returned" => ENABLED NextBatch
    /\ mainPc = "returned" =>
           /\ Len(results) = N
           /\ \A k \in Jobs : WellFormedRecord(results[k], profileIds[k])

\* C18 witness: a returned batch in which every kind of failure budgeted for was
\* spent and a failed and a successful record stand side by side.
C18_Witness ==
    /\ mainPc = "returned"
    /\ faults = MaxFaults
    /\ \E k \in Jobs : ~results[k].success /\ results[k].message # ""
    /\ \E k \in Jobs : results[k].success

\* C19 as stated: every wait of a job has a deadline, so that also with requests
\* that are never answered the handler always has a step to take until it returns.
C19_EveryWaitBounded ==
    /\ \A j \in Jobs :
           pc[j] \in HungPositions => ENABLED (BrowserDeadline(j) \/ ApiDeadline(j))
    /\ mainPc # "returned" => ENABLED NextBatchHang

\* C20 as stated: an invocation that obtained a port (from start, or from status
\* after a 409) has issued a stop request when it has returned.
C20_StopBeforeReturn ==
    \A h \in Logins :
        (loginPc[h] = "returned" /\ loginVia[h] # "none") => loginStops[h] >= 1

\* C20 amended: the handler issues no stop request on any path; an invocation that
\* obtained a port returns the login's result, or the failure of a throw, after
\* releasing its window slot, and the profile is left running.
C20_NoStopSlotReleased ==
    \A h \in Logins :
        /\ loginStops[h] = 0
        /\ (loginPc[h] = "returned" /\ loginVia[h] # "none") =>
               /\ windowIndex[h] = NoSlot
               /\ handlerResult[h] # NoResult

\* C20 witness: an invocation that got its port from the status fallback has
\* returned a failure after its login.
C20_Witness ==
    \E h \in Logins :
        /\ loginPc[h] = "returned"
        /\ loginVia[h] = "status"
        /\ ~handlerResult[h].success

\* The arguments the lookups are asked with.
IdArgs == {<<>>, <<"1">>, <<"1", " ">>, <<" ", "2">>, <<"2">>, <<"3">>, <<"1", "2">>}
NameArgs == {<<>>, <<" ">>, <<"a">>, <<"A">>, <<"a", " ">>, <<"b">>, <<"B">>, <<"a", "b">>,
             <<"A", "B">>, <<"a", "b", "a">>}

\* Two names are the same name when case and surrounding blanks are set aside.
SameName(a, b) == ToLowerCase(Trim(a)) = ToLowerCase(Trim(b))

\* The rows of the loaded set.
LoadedRows == {sessionCredentials[k] : k \in 1..Len(sessionCredentials)}

CompleteAt(sheet) == {k \in 1..Len(sheet) : HasAllThree(sheet[k])}

\* The position in the sheet of its i-th row that has all three fields.
IthComplete(sheet, i) ==
    CHOOSE k \in CompleteAt(sheet) : Cardinality({m \in CompleteAt(sheet) : m <= k}) = i

\* C22: after a load whose sheet has at least one row with id, email and password,
\* the set is exactly those rows in sheet order, whatever the set was before, the
\* count reported is their number, and the rows missing a field caused no error.
C22_LoadReplacesWithCompleteRows ==
    (lastCall = "load" /\ CompleteAt(lastSheet) # {}) =>
        /\ loadResult.success
        /\ loadResult.count = Cardinality(CompleteAt(lastSheet))
        /\ Len(sessionCredentials) = Cardinality(CompleteAt(lastSheet))
        /\ \A i \in 1..Len(sessionCredentials) :
               sessionCredentials[i] = ProfileOf(lastSheet[IthComplete(lastSheet, i)])

\* C22 witness: a set of two rows was replaced by a load of the row of profile 1 and
\* a row without email: the count is 1 and profile 1 is found.
C22_Witness ==
    /\ lastCall = "load"
    /\ Len(prevCredentials) = 2
    /\ lastSheet = <<RowP1, RowNoEmail>>
    /\ loadResult.count = 1
    /\ GetCredentialsByProfileId(sessionCredentials, <<"1">>).found

\* The position of a monthly entry in time, counted in months.
MonthKey(e) == e.year * 12 + e.month
MonthRequests == {r \in failedRequests : r.api = "month"}

\* C23: a call of fetchTikTokDataFast that returns a result returns a monthly series of
\* exactly 12 + (current month index + 1) entries: the twelve months of the previous
\* year from January on, then the months of the current year from January to the
\* current month, each later in time than the one before it, whether or not requests
\* for single months failed.
C23_MonthlySeriesLength ==
    fastOutcome.returned =>
        /\ Len(monthlyData) = 12 + (currentMonth + 1)
        /\ \A i \in 1..Len(monthlyData) :
              /\ i <= 12 => monthlyData[i].year = CurrentYear - 1 /\ monthlyData[i].month = i - 1
              /\ i > 12 => monthlyData[i].year = CurrentYear /\ monthlyData[i].month = i - 13
        /\ \A i \in 1..(Len(monthlyData) - 1) :
              MonthKey(monthlyData[i]) < MonthKey(monthlyData[i + 1])
        /\ monthlyData[Len(monthlyData)].month = currentMonth

\* The call returned in December after the requests of two months failed.
C23_Witness ==
    /\ fastOutcome.returned
    /\ currentMonth = 11
    /\ Len(monthlyData) = 24
    /\ Cardinality(MonthRequests) = 2

\* C28: when the on-hold statistic request fails, the call of fetchTikTokDataFast
\* fails: it ends with an error, returns no result, and the on-hold request stays the
\* only direct request it issued (no payment request, no monthly request).
C28_StatFailureIsFatal ==
    StatRequest \in failedRequests =>
        /\ fpc = "done"
        /\ ~fastOutcome.returned
        /\ fastOutcome.error # ""
        /\ apiLog = <<StatRequest>>
        /\ monthlyData = <<>>

\* The on-hold statistic request failed.
C28_Witness ==
    /\ StatRequest \in failedRequests
    /\ fastOutcome.error = MsgRequestFailed
    /\ fastStops = 1

\* C29: when the payment summary request fails, the call of fetchTikTokDataFast does
\* not fail: the sum amount is 'N/A', the monthly requests are issued and go on
\* until the whole series is there, and the call then returns its result.
C29_PaymentFailureNotFatal ==
    PaymentRequest \in failedRequests =>
        /\ sumAmount = "N/A"
        /\ fastOutcome.error = ""
        /\ Len(apiLog) >= 3 /\ apiLog[3].api = "month"
        /\ fpc # "done" => fpc = "month" /\ ENABLED MonthOk
        /\ fpc = "done" =>
              /\ fastOutcome.returned
              /\ Len(monthlyData) = 12 + (currentMonth + 1)

\* The call returned its result after the payment summary request failed.
C29_Witness ==
    /\ PaymentRequest \in failedRequests
    /\ fastOutcome.returned
    /\ sumAmount = NotAvailable
    /\ onHoldAmount = Figure

\* C30: the entry of a month is 'Error' exactly when the request for that month
\* failed; after a failed month the next month is requested, and the call goes on
\* to return the whole series however many monthly requests failed.
C30_MonthFailureMarksThatMonth ==
    /\ \A i \in 1..Len(monthlyData) :
          (monthlyData[i].settlement = "Error") <=>
              (\E r \in MonthRequests : r.year = monthlyData[i].year
                                        /\ r.month = monthlyData[i].month)
    /\ \A r \in MonthRequests :
          \E i \in 1..Len(monthlyData) :
              /\ monthlyData[i].year = r.year /\ monthlyData[i].month = r.month
              /\ i < 12 + (currentMonth + 1) =>
                    /\ Len(apiLog) >= i + 3
                    /\ apiLog[i + 3].api = "month"
                    /\ MonthKey(apiLog[i + 3]) = MonthKey(r) + 1
    /\ MonthRequests # {} =>
          /\ fastOutcome.error = ""
          /\ fpc = "done" => fastOutcome.returned /\ Len(monthlyData) = 12 + (currentMonth + 1)
          /\ fpc # "done" => fpc = "month" /\ ENABLED MonthOk

\* The call returned after the requests of February of the previous year and of
\* January of the current year failed, and of no other month.
C30_Witness ==
    /\ fastOutcome.returned
    /\ MonthRequests = {MonthRequest(2), MonthRequest(13)}
    /\ monthlyData[2].settlement = ErrorMarker
    /\ monthlyData[3].settlement = Figure
    /\ monthlyData[13].settlement = ErrorMarker

\* C24: during one extraction, once one of the three strategies (response listener,
\* current URL, page blob) has set the seller identity, no other strategy changes it:
\* sellerInfo keeps the identity found first, and the identity copied to the outer
\* variables, which the cookies and the direct requests go with, is that one.
C24_FirstFoundIsKept ==
    /\ sellerInfo # NoInfo => sellerInfo = firstInfo
    /\ harvest.sellerId # "" =>
          /\ harvest.sellerId = firstInfo.sellerId
          /\ harvest.oecSellerId = firstInfo.oecSellerId

\* C25: whenever fetchTikTokDataFast has issued a direct request to a finance
\* endpoint, page.close and browser.disconnect have been called and the profile's
\* stop request has been issued before.
C25_ReleaseBeforeDirectCalls ==
    apiLog # <<>> =>
        /\ closeAttempts >= 1
        /\ disconnectAttempts >= 1
        /\ fastStops >= 1

\* The direct phase began after page.close threw: the catch closed and disconnected.
C25_Witness ==
    /\ apiLog # <<>>
    /\ caught # NoError
    /\ closeAttempts = 2
    /\ disconnectAttempts = 1
    /\ fastStops = 1

\* The session shows the parameter on a URL the strategies read.
OnSomeUrl(param) == param \in session.responses \/ param \in session.location

\* C26 as stated: the direct requests are issued only when the live session showed
\* both seller_id and oec_seller_id; a session that shows only one of them never gets
\* as far as the direct requests.
C26_BothIdentifiersObserved ==
    apiLog # <<>> => OnSomeUrl("seller_id") /\ OnSomeUrl("oec_seller_id")

\* C26, amended: the direct requests are issued only with a non-empty sellerId and
\* oecSellerId. The pair is either the two parameters of one URL that carried both (a
\* URL with seller_id alone gives nothing), or, when the page embeds a seller_id blob,
\* that seller_id in both places, the oec_seller_id then not having been observed.
C26_IdentityFromUrlPairOrBlob ==
    apiLog # <<>> =>
        /\ harvest.sellerId = SellerIdValue
        /\ harvest.oecSellerId # ""
        /\ \/ /\ harvest.oecSellerId = OecSellerIdValue
              /\ \/ session.responses = {"seller_id", "oec_seller_id"}
                 \/ session.location = {"seller_id", "oec_seller_id"}
           \/ /\ harvest.oecSellerId = SellerIdValue
              /\ session.blob

\* The direct phase began on a session that shows no oec_seller_id anywhere.
C26_Witness ==
    /\ apiLog # <<>>
    /\ ~OnSomeUrl("oec_seller_id")
    /\ OnSomeUrl("seller_id")
    /\ session.blob
    /\ harvest.oecSellerId = harvest.sellerId

\* The four kinds of transport fault and the reason each is named with.
NetFaults == {ErrProxy, ErrTimedOut, ErrRefused, ErrDns}
NamedReason(m) ==
    CASE m = ErrProxy -> "Proxy dead/unavailable"
      [] m = ErrTimedOut -> "Network timeout"
      [] m = ErrRefused -> "Connection refused"
      [] m = ErrDns -> "DNS resolution failed"
      [] OTHER -> ""
NamedReasons == {NamedReason(m) : m \in NetFaults}
Captured == harvest.sellerId # "" /\ harvest.cookies > 0

\* C27: when a step of the browser phase fails with a proxy, timeout,
\* connection-refused or DNS fault, then, if the seller identity or the cookies were
\* not captured, the call issues no direct request and fails with the reason named
\* after that kind of fault; if both were captured before the fault, the call goes on
\* to the direct requests and no named reason is reported.
C27_NetworkFaultNamed ==
    caught \in NetFaults =>
        /\ fpc \in {"stop", "stat", "payment", "month", "done"}
        /\ ~Captured =>
              /\ apiLog = <<>>
              /\ fpc = "done" =>
                    /\ ~fastOutcome.returned
                    /\ fastOutcome.error = NamedReason(caught)
        /\ Captured =>
              /\ fpc # "stop" => apiLog # <<>>
              /\ fastOutcome.error \notin NamedReasons

\* The seller identity was captured, page.cookies then failed with ERR_TIMED_OUT, and
\* the call failed with 'Network timeout'.
C27_Witness ==
    /\ caught = ErrTimedOut
    /\ harvest.sellerId # ""
    /\ harvest.cookies = 0
    /\ fastOutcome.error = MsgNetTimeout

\* page.close failed with a proxy fault after identity and cookies were captured, and
\* the call returned its result.
C27_CapturedBeforeFault ==
    /\ caught = ErrProxy
    /\ Captured
    /\ fastOutcome.returned

\* ---------------------------------------------------------------- C31 .. C40

\* C31 as stated: every attempt that failed, whether it is retried or ends the job
\* with a failure record, has had a stop request issued for the profile.
C31_StopAfterEveryFailure ==
    \A j \in Jobs :
        (pc[j] = "backoff" \/ (pc[j] = "done" /\ ~rec[j].success)) => stopCnt[j] >= 1

\* What one step of job j does at the end of processProfile's catch.
C31_CatchStep(j) ==
    /\ (pc[j] = "catchStop" /\ pc'[j] # "catchStop") =>
          /\ stopCnt[j] >= 1
          /\ stopCnt'[j] = stopCnt[j]
          /\ pc'[j] \in {"backoff", "done"}
          /\ pc'[j] = "backoff" <=> (~IsInUseMessage(err[j]) /\ retryCount[j] < MAX_RETRIES)
          /\ pc'[j] = "backoff" => rec'[j] = rec[j]
          /\ pc'[j] = "done" =>
                rec'[j] = [profileId |-> profileIds[j], success |-> FALSE, message |-> err[j]]
    /\ (pc[j] # "backoff" /\ pc'[j] = "backoff") => pc[j] = "catchStop"
    /\ (pc[j] # "done" /\ pc'[j] = "done" /\ ~rec'[j].success /\ ~denied'[j]) =>
          pc[j] = "catchStop"

\* C31, amended: an attempt that fails in any way but the 400 answer to start ends in
\* processProfile's catch, where a stop request is issued before the retry is scheduled
\* or the failure record is returned; whether the retry happens and what the record
\* says depend on the attempt's error and on retryCount alone, not on how the stop
\* request ended. The 400 answer returns its failure record with no stop request.
C31_StopBeforeRetryOrRecord ==
    [][(\A j \in Jobs : C31_CatchStep(j))
       /\ (\A j \in Jobs : (pc[j] = "start" /\ denied'[j]) =>
              (pc'[j] = "done" /\ ~rec'[j].success /\ stopCnt'[j] = 0))]_vars

\* The catch's stop request of a job failed and the job is about to retry.
C31_Witness ==
    \E j \in stopFailed : pc[j] = "backoff" /\ stopCnt[j] >= 1 /\ retryCount[j] = 0

\* The loop index i of the chunk job j belongs to.
LoopIndexOf(j) == ChunkIndex(j) * CHUNK_SIZE

\* The number of chunks whose 'running' message was due: those whose promises have
\* been created.
ChunksStarted ==
    IF mainPc \in {"awaitAll", "cooldown"}
       THEN chunkI \div CHUNK_SIZE + 1
       ELSE (Min(chunkI, N) + CHUNK_SIZE - 1) \div CHUNK_SIZE

\* The position in the complete series of the 'running' message of job j's chunk, and
\* of the completion message of job j: every chunk before the last is full, so each
\* takes CHUNK_SIZE + 1 places.
RunningPlace(j) == ChunkIndex(j) * (CHUNK_SIZE + 1) + 1
CompletionPlace(j) == RunningPlace(j) + (j - LoopIndexOf(j))

\* The k-th message sent is the k-th message of the complete series: at the head of
\* each chunk its 'running' message with current = i, then one completion message per
\* profile of the chunk, in order, with current = the number of records pushed so
\* far and status 'success' exactly when the profile's record has success = true.
EventInPlace(k) ==
    LET c == (k - 1) \div (CHUNK_SIZE + 1)
        o == (k - 1) % (CHUNK_SIZE + 1)
        j == c * CHUNK_SIZE + o
        e == events[k]
    IN /\ e.total = N
       /\ 0 <= e.current /\ e.current <= e.total
       /\ IF o = 0
             THEN e.status = "running" /\ e.current = c * CHUNK_SIZE
             ELSE /\ j \in Jobs /\ j <= Len(results)
                  /\ e.profileId = profileIds[j]
                  /\ e.status = IF rec[j].success THEN "success" ELSE "error"
                  /\ e.current = Min((c + 1) * CHUNK_SIZE, N)

\* Every message due so far was sent: one 'running' message per chunk started and one
\* completion message per record pushed; so a job that has issued a start request
\* has the 'running' message of its chunk and the completion messages of all earlier
\* chunks before it.
EventsComplete ==
    /\ Len(events) = ChunksStarted + Len(results)
    /\ \A j \in Jobs : attempts[j] > 0 =>
          /\ Len(events) >= RunningPlace(j)
          /\ \A j2 \in 1..LoopIndexOf(j) : Len(events) >= CompletionPlace(j2)

C37_NoStopForDeniedProfile ==
    [][\A j \in Jobs :
          /\ (denied[j] \/ denied'[j]) => stopCnt'[j] = stopCnt[j]
          /\ denied'[j] => stopCnt'[j] = 0 /\ pc'[j] # "catchStop"]_vars

\* C37 witness: the batch returned; a profile's first attempt failed and was cleaned
\* up, its retry's start request was answered 400 and no stop request followed.
C37_Witness ==
    /\ mainPc = "returned"
    /\ \E j \in Jobs : denied[j] /\ attempts[j] = MAX_RETRIES + 1 /\ stopCnt[j] = 0

\* C38 as stated: an attempt issues at most one stop request, and none unless it
\* obtained a port.
C38_StopOnlyWithPortOnce ==
    \A j \in Jobs : stopCnt[j] <= 1 /\ (stopCnt[j] >= 1 => via[j] # "none")

\* The stop requests of an attempt that has ended, by how it ended.
StopsOfEndedAttempt(j) ==
    IF denied[j] THEN 0
    ELSE IF pc[j] = "done" /\ rec[j].success THEN 1
    ELSE IF via[j] = "none" THEN 1
    ELSE 2

\* C38, amended: an attempt issues no stop request when its start is answered 400; one
\* (that of fetchTikTokDataFast) when it succeeds; one (that of processProfile's catch)
\* when it fails without a port, by a transient start error or a 409 whose status
\* lookup yields no port; and two (fetchTikTokDataFast's, then the catch's) when it
\* fails after a port was obtained. No attempt issues more than two.
C38_StopsPerAttempt ==
    \A j \in Jobs :
        /\ stopCnt[j] <= 2
        /\ AttemptEnded(j) => stopCnt[j] = StopsOfEndedAttempt(j)

\* One job failed its attempt without a port and issued one stop request, another
\* failed after its port was obtained and issued two; both wait for their retry.
C38_Witness ==
    \E j, k \in Jobs :
        /\ pc[j] = "backoff" /\ via[j] = "none" /\ stopCnt[j] = 1
        /\ pc[k] = "backoff" /\ via[k] # "none" /\ stopCnt[k] = 2

\* The login form was submitted: the login button was clicked or Enter was pressed.
Submitted == "click" \in formActs \/ "enter" \in formActs

\* C32: when the navigation has ended and the location is an authenticated area
\* (homepage, dashboard or setup=), the call returns success 'Already logged in!' in
\* that step, and whenever that result is returned nothing was typed into, cleared in
\* or clicked on the login form.
C32_AlreadyLoggedInTouchesNothing ==
    [][/\ (spc = "goto" /\ spc' # "goto" /\ escaped' = escaped /\ IsAuthenticatedArea(url'))
              => /\ spc' = "returned"
                 /\ loginResult' = [success |-> TRUE, message |-> <<MsgAlreadyLoggedIn>>,
                                    requires2FA |-> FALSE]
       /\ (spc' = "returned" /\ loginResult'.message = <<MsgAlreadyLoggedIn>>)
              => /\ loginResult'.success
                 /\ formActs' = {}
                 /\ ~typedCode'
                 /\ ~twoFAInput']_vars

\* C32 witness: the navigation ended on a setup= address and the call returned
\* 'Already logged in!' with no exception on the way.
C32_Witness ==
    /\ spc = "returned"
    /\ url = "setup"
    /\ raised = {}
    /\ loginResult.success
    /\ loginResult.message = <<MsgAlreadyLoggedIn>>
    /\ disconnects = 1

\* C33: a call that waits for the redirection has typed and submitted its code, and
\* whatever ends that wait the call returns success = true with no exception caught;
\* when the location is then not an authenticated area, requires2FA is true.
C33_RedirectTimeoutIsSuccess ==
    [][spc = "waitRedirect" =>
          /\ typedCode /\ code # NoCode
          /\ spc' = "returned"
          /\ escaped' = escaped
          /\ loginResult'.success
          /\ ~IsAuthenticatedArea(url') => loginResult'.requires2FA
          /\ ~IsHomepage(url') => loginResult'.message = <<MsgVerifying2FA>>]_vars

\* C33 witness: the wait for the redirection timed out on the login page and the call
\* returned success with requires2FA.
C33_Witness ==
    /\ spc = "returned"
    /\ typedCode
    /\ raised # {}
    /\ url = "login"
    /\ loginResult.success /\ loginResult.requires2FA
    /\ loginResult.message = <<MsgVerifying2FA>>

\* The results of the branch without two-factor input, by the final location.
NoTwoFAOutcomes(u) ==
    IF IsHomepage(u)
       THEN {[success |-> TRUE, message |-> <<MsgLoginSuccessful>>, requires2FA |-> FALSE]}
       ELSE IF IsLoginLocation(u)
               THEN {[success |-> FALSE, message |-> <<MsgStillOnLogin>>, requires2FA |-> FALSE]}
                    \cup {[success |-> FALSE, message |-> <<MsgLoginFailedPrefix, t>>,
                           requires2FA |-> FALSE] : t \in ErrorTexts \ {""}}
               ELSE {[success |-> TRUE, message |-> <<MsgCheckBrowser>>, requires2FA |-> FALSE]}

\* C34: a call that submitted the form, found no two-factor input and returned without
\* an exception reaching a catch that returns has the result its final location
\* dictates: success on the homepage or dashboard, otherwise a failure on a login
\* location (with the error text when there is one), otherwise success with the
\* 'check browser' note.
C34_OutcomeByFinalLocation ==
    (spc = "returned" /\ Submitted /\ ~twoFAInput /\ escaped = NoException)
        => loginResult \in NoTwoFAOutcomes(url)

\* C34 witness: no two-factor input appeared, the final location is a login address
\* that names the homepage, and the call returned 'Login successful!'.
C34_Witness ==
    /\ spc = "returned"
    /\ Submitted
    /\ ~twoFAInput
    /\ escaped = NoException
    /\ url = "loginToHome"
    /\ loginResult.message = <<MsgLoginSuccessful>>

\* The last call was a load that failed, a saveCredentials or a deleteCredentials.
FailedLoadOrStub ==
    \/ lastCall \in {"save", "delete", "unreadable"}
    \/ lastCall = "load" /\ ~loadResult.success

\* C36: after a load that failed (unreadable workbook, empty sheet, no row with id,
\* email and password), a saveCredentials or a deleteCredentials, the credential set
\* is the one before the call and every lookup by ID or by name answers as before.
C36_FailedLoadKeepsSet ==
    FailedLoadOrStub =>
        /\ sessionCredentials = prevCredentials
        /\ \A a \in IdArgs :
               GetCredentialsByProfileId(sessionCredentials, a)
                   = GetCredentialsByProfileId(prevCredentials, a)
        /\ \A a \in NameArgs :
               GetCredentialsByProfileName(sessionCredentials, a)
                   = GetCredentialsByProfileName(prevCredentials, a)
        /\ lastCall = "load" => loadResult.count = 0

\* C36 witness: with two rows loaded, a sheet whose only row lacks the email was
\* loaded and refused; profile 1 is still found.
C36_Witness ==
    /\ lastCall = "load"
    /\ lastSheet = <<RowNoEmail>>
    /\ ~loadResult.success
    /\ Len(sessionCredentials) = 2
    /\ GetCredentialsByProfileId(sessionCredentials, <<"1">>).found

\* C39: an invocation that found no credentials, by name or by ID, has returned the
\* 'Missing credentials' failure having issued no start and no status request, taken
\* no window slot and run no login; and an invocation that returned 'Profile is in use
\* by another user' has issued its start request and nothing else.
C39_NoCredentialsNoRequests ==
    \A h \in Logins :
        /\ (loginPc[h] # "idle" /\ ~credentials[h].found) =>
              /\ ~GetCredentialsByProfileName(sessionCredentials, loginArgs[h].profileName).found
              /\ ~GetCredentialsByProfileId(sessionCredentials, loginArgs[h].profileId).found
              /\ loginPc[h] = "returned"
              /\ handlerResult[h] = [success |-> FALSE, message |-> <<MsgMissingCredentials>>,
                                     requires2FA |-> FALSE]
              /\ loginTrail[h] = {}
              /\ loginVia[h] = "none"
              /\ windowIndex[h] = NoSlot /\ ~inLogin[h]
        /\ handlerResult[h].message = <<MsgMissingCredentials>> => ~credentials[h].found
        /\ handlerResult[h].message = <<MsgInUseByAnother>> =>
              /\ ~handlerResult[h].success
              /\ loginPc[h] = "returned"
              /\ loginTrail[h] = {"start"}
              /\ loginVia[h] = "none"
              /\ windowIndex[h] = NoSlot /\ ~inLogin[h]

\* C39 witness: with a credential set loaded, one invocation returned for want of
\* credentials and another because its start request was answered 400.
C39_Witness ==
    /\ sessionCredentials # <<>>
    /\ \E h, g \in Logins :
          /\ loginPc[h] = "returned" /\ ~credentials[h].found /\ loginTrail[h] = {}
          /\ loginPc[g] = "returned" /\ handlerResult[g].message = <<MsgInUseByAnother>>

\* The first position of a set of positions.
FirstOf(S) == CHOOSE k \in S : \A m \in S : k <= m

\* The positions of the loaded rows with a given name, and with a given ID.
RowsNamed(name) ==
    {k \in 1..Len(sessionCredentials) : SameName(sessionCredentials[k].profileName, name)}
RowsWithId(id) ==
    {k \in 1..Len(sessionCredentials) : sessionCredentials[k].profileId = Trim(id)}

\* C40 as stated: the credentials of an invocation that has called the login automaton
\* are those of a loaded row whose profileId is the requested profileId.
C40_CredentialsOfRequestedId ==
    \A h \in Logins :
        "login" \in loginTrail[h] =>
            /\ credentials[h].found
            /\ credentials[h].profileId = loginArgs[h].profileId
            /\ \E k \in 1..Len(sessionCredentials) : credentials[h] = Found(sessionCredentials[k])

\* C40, amended: the credentials of an invocation that has called the login automaton
\* are those of the first loaded row whose name is the profileName argument (case and
\* surrounding blanks set aside) when a name was given and such a row exists, whatever
\* that row's profileId; otherwise those of the first loaded row whose profileId is the
\* requested profileId.
C40_CredentialsByNameThenId ==
    \A h \in Logins :
        "login" \in loginTrail[h] =>
            /\ credentials[h].found
            /\ IF loginArgs[h].profileName # <<>> /\ RowsNamed(loginArgs[h].profileName) # {}
                  THEN credentials[h]
                          = Found(sessionCredentials[FirstOf(RowsNamed(loginArgs[h].profileName))])
                  ELSE /\ RowsWithId(loginArgs[h].profileId) # {}
                       /\ credentials[h]
                             = Found(sessionCredentials[FirstOf(RowsWithId(loginArgs[h].profileId))])

\* C40 witness: the set holds a row for the requested profileId, and the login runs
\* with the credentials of another row, found by name.
C40_Witness ==
    \E h \in Logins :
        /\ loginPc[h] = "login"
        /\ RowsWithId(loginArgs[h].profileId) # {}
        /\ credentials[h].found
        /\ credentials[h].profileId # loginArgs[h].profileId

====
